---- MODULE Spec2Model ----
(***************************************************************************)
(* State-machine model of gw (khanrc/gw): the bulk command runner          *)
(* (cmd/exec.rs), the working-directory resolution (cmd/mod.rs,            *)
(* resolve_subdir / resolve_worktree_dir, config.rs default_subdir), the   *)
(* garbage-collection scan (cmd/mod.rs, gc), the metadata store (meta.rs), *)
(* the commands of cmd/mod.rs as whole invocations on one repository, two  *)
(* concurrent invocations, the configuration (config.rs), the status       *)
(* parsing (dirty_files, recent_uncommitted), the worktree listing         *)
(* (git.rs) and the logical names of worktrees.                            *)
(*                                                                         *)
(* The specifications of the module:                                       *)
(*   SpecExec      exec_cmd, sequential and parallel                       *)
(*   SpecSubdir    resolve_worktree_dir over bounded inputs                *)
(*   SpecGc        the gc scan and its candidate list                      *)
(*   SpecMeta      the methods of MetaStore on a loaded document           *)
(*   SpecRepo      add, del, lock, unlock, gc, apply in sequence           *)
(*   SpecBatch     sync, apply, verify, exec, gc in sequence               *)
(*   SpecAnnotate  note and subdir in sequence                             *)
(*   SpecRace      two note processes at once                              *)
(*   SpecConf      Config::load, merge and the getters                     *)
(*   SpecNames     exec_cmd from the resolution of its names on            *)
(*   SpecLockRace  del or gc --prune beside a concurrent lock              *)
(*   SpecStatus    dirty_files and recent_uncommitted on one worktree      *)
(*   SpecListing   Git::worktrees on a porcelain listing                   *)
(*   SpecNaming    add, then worktree_display_name                         *)
(*   SpecValid     Config::load and Config::validate on the project file   *)
(***************************************************************************)
EXTENDS Integers, Sequences, FiniteSets, TLC

VARIABLES
    \* ---- exec_cmd (cmd/exec.rs) ----
    ex_args,      \* ExecArgs: [parallel, fail_fast]
    ex_n,         \* number of resolved targets (targets.len())
    ex_pc,        \* position of the main thread in exec_cmd
    ex_parallel,  \* local `parallel` of exec_cmd
    ex_i,         \* index of the for loop the main thread is in
    ex_st,        \* per target: pending / spawned / running / exited / handled
    ex_outcome,   \* per target: what the subprocess did
    ex_ret,       \* per target: the `ok` value obtained from run_shell
    ex_started,   \* per target: how many times its command was started
    ex_order,     \* targets in the order their commands were started
    ex_reported,  \* names printed as "exec failed: <name>", in order
    ex_failed,    \* local `failed` of the parallel branch
    ex_result,    \* return value of exec_cmd: none / Ok / Err
    \* ---- resolve_worktree_dir / resolve_subdir (cmd/mod.rs) ----
    rs_in,        \* the inputs of one call: worktree path, flags, meta, config
    rs_pc,        \* "call" before resolve_worktree_dir runs, "ret" after
    rs_out,       \* the PathBuf returned
    rs_warn,      \* whether the "does not exist" warning was printed
    \* ---- gc (cmd/mod.rs) ----
    gc_args,      \* GcArgs: [prune]
    gc_cfg,       \* gc.stale_days of the loaded configuration (Option<i64>)
    gc_n,         \* number of worktrees in the listing
    gc_pc,        \* "scan", "emit", "done"
    gc_i,         \* index of the loop gc is in
    gc_iter,      \* the locals of the scan iteration that ran last
    gc_candidates,\* local `candidates`: worktrees (by listing index)
    gc_printed,   \* lines printed: [kind, wt]
    gc_removed,   \* worktrees whose `git worktree remove --force` succeeded
    gc_result,     \* return value of gc: none / Ok / Err
    \* ---- MetaStore (meta.rs) ----
    ms_data,      \* MetaStore.data.worktrees: name -> Option<WorktreeMeta>
    ms_last,       \* the MetaStore call made last: [op, name]
    \* ---- one repository, one command after another (cmd/mod.rs) ----
    rp_wts,       \* names of the worktrees git lists under the worktrees root
    rp_locks,     \* names whose lock marker .gw/locks/<name>.lock exists
    rp_disk,      \* the metadata document in .gw/meta.json
    rp_last,       \* the command that ran last, its arguments and its result
    \* ---- two invocations of note at once (main.rs, meta.rs, cmd/mod.rs) ----
    rc_init,      \* meta.json before either process starts
    rc_disk,      \* meta.json now
    rc_args,      \* per process: the arguments of its note command
    rc_pc,        \* per process: "start", "loaded" or "done"
    rc_meta,      \* per process: ctx.meta, the document it loaded
    rc_result,    \* per process: "none", "Ok" or "Err"
    rc_order,      \* the processes that wrote meta.json, in the order of their writes
    \* ---- configuration (config.rs) ----
    cf_env,       \* the environment: per scalar setting, its override if set
    cf_global,    \* the global config.toml: [exists, valid, cfg]
    cf_project,   \* .gw/config.toml of the repository: [exists, valid, cfg]
    cf_pc,        \* "start", "loaded", "failed" or "read"
    cf_config,    \* the Config that Config::load returned
    cf_eff,        \* what the getters of that Config return
    \* ---- exec_cmd with explicit worktree names (cmd/exec.rs 5-41) ----
    xr_args,      \* ExecArgs: [worktrees, parallel, fail_fast]
    xr_wts,       \* names of the worktrees git lists under the worktrees root
    xr_pc,        \* "resolve", "run" or "done"
    xr_i,         \* index of the `for name in &args.worktrees` loop
    xr_targets,   \* the local `targets`
    xr_result,     \* how the resolution ended: [code, msg], code 0 for none
    \* ---- del or gc --prune beside a concurrent lock (cmd/mod.rs) ----
    lr_cmd,       \* the removing command: [op, name, force]; op "del" or "gc"
    lr_lockname,  \* the name the concurrent `gw lock` was given
    lr_wts,       \* names of the worktrees git lists under the worktrees root
    lr_locks,     \* names whose lock marker exists
    lr_disk,      \* the metadata document in .gw/meta.json
    lr_pc,        \* position of the removing command
    lr_lpc,       \* position of the lock command: "start" or "done"
    lr_i,         \* gc: index of the loop it is in
    lr_cands,     \* gc: the local `candidates`
    lr_result,     \* result of the removing command: [code, msg], code -1 while it runs
    \* ---- dirty_files and recent_uncommitted on one worktree (cmd/mod.rs) ----
    st_lines,     \* the lines `git status --porcelain` prints, each a sequence of characters
    st_mtime,     \* path -> modification time in seconds since the epoch, None when unreadable
    st_max,       \* the `max` argument of recent_uncommitted
    st_pc,        \* "start", "counted", "listed" or "failed"
    st_dirty,     \* the DirtyInfo dirty_files returned
    st_recent,     \* the Vec recent_uncommitted returned
    \* ---- Git::worktrees (git.rs) ----
    wl_lines,     \* the lines `git worktree list --porcelain` prints, each a sequence of words
    wl_pc,        \* "run", "parse", "done" or "failed"
    wl_i,         \* index of the next line
    wl_current,   \* the local `current`: Option<Worktree>
    wl_result,     \* the local `result`, returned at the end
    \* ---- add and worktree_display_name (cmd/mod.rs) ----
    nm_wdcfg,     \* Config::worktrees_dir
    nm_wd_exists, \* whether the worktrees directory exists
    nm_name,      \* Some(name given to add), None for a worktree add did not make here
    nm_path,      \* the path git lists for the worktree
    nm_exists,    \* whether that path can be canonicalized
    nm_pc,        \* "start", "listed", "named" or "failed"
    nm_display,    \* Some(the String worktree_display_name returned)
    \* ---- Config::load and Config::validate on .gw/config.toml (config.rs) ----
    vd_file,      \* the project file: [exists, syntax_ok, entries]
    vd_loaded,    \* Some(what Config::load returned), None before the call
    vd_warnings   \* Some(the Vec Config::validate returned), None before the call

execVars == <<ex_args, ex_n, ex_pc, ex_parallel, ex_i, ex_st, ex_outcome,
              ex_ret, ex_started, ex_order, ex_reported, ex_failed, ex_result>>

subVars == <<rs_in, rs_pc, rs_out, rs_warn>>

gcVars == <<gc_args, gc_cfg, gc_n, gc_pc, gc_i, gc_iter, gc_candidates,
            gc_printed, gc_removed, gc_result>>

metaVars == <<ms_data, ms_last>>

repoVars == <<rp_wts, rp_locks, rp_disk, rp_last>>

raceVars == <<rc_init, rc_disk, rc_args, rc_pc, rc_meta, rc_result, rc_order>>

confVars == <<cf_env, cf_global, cf_project, cf_pc, cf_config, cf_eff>>

namesVars == <<xr_args, xr_wts, xr_pc, xr_i, xr_targets, xr_result>>

lockRaceVars == <<lr_cmd, lr_lockname, lr_wts, lr_locks, lr_disk, lr_pc, lr_lpc, lr_i, lr_cands, lr_result>>

statusVars == <<st_lines, st_mtime, st_max, st_pc, st_dirty, st_recent>>

listingVars == <<wl_lines, wl_pc, wl_i, wl_current, wl_result>>

namingVars == <<nm_wdcfg, nm_wd_exists, nm_name, nm_path, nm_exists, nm_pc, nm_display>>

validVars == <<vd_file, vd_loaded, vd_warnings>>

vars == <<execVars, subVars, gcVars, metaVars, repoVars, raceVars, confVars, namesVars, lockRaceVars, statusVars, listingVars, namingVars, validVars>>

\* What exec_cmd leaves alone.
nonExecVars == <<subVars, gcVars, metaVars, repoVars, raceVars, confVars, namesVars, lockRaceVars, statusVars, listingVars, namingVars, validVars>>

\* What resolve_worktree_dir leaves alone.
nonSubVars == <<execVars, gcVars, metaVars, repoVars, raceVars, confVars, namesVars, lockRaceVars, statusVars, listingVars, namingVars, validVars>>

\* What gc leaves alone.
nonGcVars == <<execVars, subVars, metaVars, repoVars, raceVars, confVars, namesVars, lockRaceVars, statusVars, listingVars, namingVars, validVars>>

\* What the MetaStore calls leave alone.
nonMetaVars == <<execVars, subVars, gcVars, repoVars, raceVars, confVars, namesVars, lockRaceVars, statusVars, listingVars, namingVars, validVars>>

\* What the commands on the repository leave alone.
nonRepoVars == <<execVars, subVars, gcVars, metaVars, raceVars, confVars, namesVars, lockRaceVars, statusVars, listingVars, namingVars, validVars>>

\* What the two note processes leave alone.
nonRaceVars == <<execVars, subVars, gcVars, metaVars, repoVars, confVars, namesVars, lockRaceVars, statusVars, listingVars, namingVars, validVars>>

\* What loading and reading the configuration leaves alone.
nonConfVars == <<execVars, subVars, gcVars, metaVars, repoVars, raceVars, namesVars, lockRaceVars, statusVars, listingVars, namingVars, validVars>>

\* What the name resolution of exec_cmd leaves alone.
nonNamesVars == <<execVars, subVars, gcVars, metaVars, repoVars, raceVars, confVars, lockRaceVars, statusVars, listingVars, namingVars, validVars>>

\* What neither the name resolution nor the run of exec_cmd touches.
nonNamesExecVars == <<subVars, gcVars, metaVars, repoVars, raceVars, confVars, lockRaceVars, statusVars, listingVars, namingVars, validVars>>

\* What del, gc and the concurrent lock leave alone.
nonLockRaceVars == <<execVars, subVars, gcVars, metaVars, repoVars, raceVars, confVars, namesVars, statusVars, listingVars, namingVars, validVars>>

\* What dirty_files and recent_uncommitted leave alone.
nonStatusVars == <<execVars, subVars, gcVars, metaVars, repoVars, raceVars, confVars, namesVars, lockRaceVars, listingVars, namingVars, validVars>>

\* What Git::worktrees leaves alone.
nonListingVars == <<execVars, subVars, gcVars, metaVars, repoVars, raceVars, confVars, namesVars, lockRaceVars, statusVars, namingVars, validVars>>

\* What add and worktree_display_name leave alone.
nonNamingVars == <<execVars, subVars, gcVars, metaVars, repoVars, raceVars, confVars, namesVars, lockRaceVars, statusVars, listingVars, validVars>>

\* What Config::load and Config::validate leave alone.
nonValidVars == <<execVars, subVars, gcVars, metaVars, repoVars, raceVars, confVars, namesVars, lockRaceVars, statusVars, listingVars, namingVars>>

(***************************************************************************)
(* Option<T>: None is the empty sequence, Some(v) the one-element sequence *)
(***************************************************************************)
None == <<>>

Some(v) == <<v>>

IsSome(o) == Len(o) = 1

Unwrap(o) == o[1]

\* Option::or
OptOr(a, b) == IF IsSome(a) THEN a ELSE b

\* Option::unwrap_or
OptUnwrapOr(o, d) == IF IsSome(o) THEN o[1] ELSE d

(***************************************************************************)
(* exec_cmd                                                                *)
(***************************************************************************)
MaxTargets == 3

Targets == 1..MaxTargets

\* What can happen to `sh -c <cmd>` in a target directory.
Outcomes == {"zero", "nonzero", "launch_err"}

\* run_shell: Err when the process cannot be spawned, else Ok(status.success())
RunShell(outcome) ==
    IF outcome = "launch_err" THEN [tag |-> "Err", val |-> FALSE]
    ELSE [tag |-> "Ok", val |-> (outcome = "zero")]

\* Result::unwrap_or
ResUnwrapOr(res, d) == IF res.tag = "Ok" THEN res.val ELSE d

RunTargetLenient(outcome) == ResUnwrapOr(RunShell(outcome), TRUE)

\* `let ok = super::run_shell(&cmd, &path).unwrap_or(false);`
RunTarget(outcome) == ResUnwrapOr(RunShell(outcome), FALSE)

UseParallelIgnoringFailFast(parallel, fail_fast) == parallel

\* `let parallel = args.parallel && !args.fail_fast;`
UseParallel(parallel, fail_fast) == parallel /\ ~fail_fast

JoinFailedOverwrite(failed, ok) == ~ok

\* join loop body: `if !ok { failed = true; ... }`
JoinFailed(failed, ok) == failed \/ ~ok

SeqAbortNever(ok, fail_fast) == FALSE

\* sequential loop body: `if !ok { ...; if args.fail_fast { return Err } }`
SeqAbort(ok, fail_fast) == ~ok /\ fail_fast

\* `eprintln!("exec failed: {}", name)` when !ok
Report(reported, t, ok) == IF ok THEN reported ELSE Append(reported, t)

ExecIdle ==
    /\ ex_args = [parallel |-> FALSE, fail_fast |-> FALSE]
    /\ ex_n = 0
    /\ ex_pc = "idle"
    /\ ex_parallel = FALSE
    /\ ex_i = 1
    /\ ex_st = [t \in Targets |-> "pending"]
    /\ ex_outcome = [t \in Targets |-> "none"]
    /\ ex_ret = [t \in Targets |-> TRUE]
    /\ ex_started = [t \in Targets |-> 0]
    /\ ex_order = <<>>
    /\ ex_reported = <<>>
    /\ ex_failed = FALSE
    /\ ex_result = "none"

InitExec ==
    /\ ex_args \in [parallel : BOOLEAN, fail_fast : BOOLEAN]
    /\ ex_n \in 0..MaxTargets
    /\ ex_pc = "start"
    /\ ex_parallel = FALSE
    /\ ex_i = 1
    /\ ex_st = [t \in Targets |-> "pending"]
    /\ ex_outcome = [t \in Targets |-> "none"]
    /\ ex_ret = [t \in Targets |-> TRUE]
    /\ ex_started = [t \in Targets |-> 0]
    /\ ex_order = <<>>
    /\ ex_reported = <<>>
    /\ ex_failed = FALSE
    /\ ex_result = "none"

\* exec.rs 43-46 / 69-70: choose the branch and enter its first loop
ExecBegin ==
    /\ ex_pc = "start"
    /\ ex_parallel' = UseParallel(ex_args.parallel, ex_args.fail_fast)
    /\ ex_pc' = IF ex_parallel' THEN "spawn" ELSE "seq"
    /\ ex_i' = 1
    /\ UNCHANGED <<nonExecVars, ex_args, ex_n, ex_st, ex_outcome, ex_ret, ex_started,
                   ex_order, ex_reported, ex_failed, ex_result>>

\* exec.rs 47-54: thread::spawn for the next target
Spawn ==
    /\ ex_pc = "spawn"
    /\ ex_i <= ex_n
    /\ ex_st' = [ex_st EXCEPT ![ex_i] = "spawned"]
    /\ ex_i' = ex_i + 1
    /\ UNCHANGED <<nonExecVars, ex_args, ex_n, ex_pc, ex_parallel, ex_outcome, ex_ret,
                   ex_started, ex_order, ex_reported, ex_failed, ex_result>>

\* exec.rs 54-56: the spawn loop is over, `let mut failed = false`
SpawnEnd ==
    /\ ex_pc = "spawn"
    /\ ex_i > ex_n
    /\ ex_pc' = "join"
    /\ ex_i' = 1
    /\ ex_failed' = FALSE
    /\ UNCHANGED <<nonExecVars, ex_args, ex_n, ex_parallel, ex_st, ex_outcome, ex_ret,
                   ex_started, ex_order, ex_reported, ex_result>>

\* exec.rs 49-50: worker thread t enters run_shell, the subprocess starts
ThreadStart(t) ==
    /\ t <= ex_n
    /\ ex_st[t] = "spawned"
    /\ ex_st' = [ex_st EXCEPT ![t] = "running"]
    /\ ex_started' = [ex_started EXCEPT ![t] = @ + 1]
    /\ ex_order' = Append(ex_order, t)
    /\ UNCHANGED <<nonExecVars, ex_args, ex_n, ex_pc, ex_parallel, ex_i, ex_outcome,
                   ex_ret, ex_reported, ex_failed, ex_result>>

\* exec.rs 50-52: the subprocess of worker t is over, the thread returns (name, ok)
ThreadExit(t) ==
    /\ t <= ex_n
    /\ ex_parallel
    /\ ex_st[t] = "running"
    /\ \E o \in Outcomes :
         /\ ex_outcome' = [ex_outcome EXCEPT ![t] = o]
         /\ ex_ret' = [ex_ret EXCEPT ![t] = RunTarget(o)]
    /\ ex_st' = [ex_st EXCEPT ![t] = "exited"]
    /\ UNCHANGED <<nonExecVars, ex_args, ex_n, ex_pc, ex_parallel, ex_i, ex_started,
                   ex_order, ex_reported, ex_failed, ex_result>>

\* exec.rs 56-65: handle.join() of the next handle, in spawn order; it blocks
\* until that worker has returned (the closure has no panicking call, so
\* join yields Ok((name, ok)))
Join ==
    /\ ex_pc = "join"
    /\ ex_i <= ex_n
    /\ ex_st[ex_i] = "exited"
    /\ ex_failed' = JoinFailed(ex_failed, ex_ret[ex_i])
    /\ ex_reported' = Report(ex_reported, ex_i, ex_ret[ex_i])
    /\ ex_st' = [ex_st EXCEPT ![ex_i] = "handled"]
    /\ ex_i' = ex_i + 1
    /\ UNCHANGED <<nonExecVars, ex_args, ex_n, ex_pc, ex_parallel, ex_outcome, ex_ret,
                   ex_started, ex_order, ex_result>>

\* exec.rs 66-68, 81: after the join loop
ParReturn ==
    /\ ex_pc = "join"
    /\ ex_i > ex_n
    /\ ex_result' = IF ex_failed THEN "Err" ELSE "Ok"
    /\ ex_pc' = "done"
    /\ UNCHANGED <<nonExecVars, ex_args, ex_n, ex_parallel, ex_i, ex_st, ex_outcome,
                   ex_ret, ex_started, ex_order, ex_reported, ex_failed>>

\* exec.rs 70-71: the sequential loop enters run_shell for the next target
SeqStart ==
    /\ ex_pc = "seq"
    /\ ex_i <= ex_n
    /\ ex_st[ex_i] = "pending"
    /\ ex_st' = [ex_st EXCEPT ![ex_i] = "running"]
    /\ ex_started' = [ex_started EXCEPT ![ex_i] = @ + 1]
    /\ ex_order' = Append(ex_order, ex_i)
    /\ UNCHANGED <<nonExecVars, ex_args, ex_n, ex_pc, ex_parallel, ex_i, ex_outcome,
                   ex_ret, ex_reported, ex_failed, ex_result>>

\* exec.rs 71-77: run_shell returns in the sequential loop
SeqExit ==
    /\ ex_pc = "seq"
    /\ ex_i <= ex_n
    /\ ex_st[ex_i] = "running"
    /\ \E o \in Outcomes :
         LET ok == RunTarget(o) IN
         /\ ex_outcome' = [ex_outcome EXCEPT ![ex_i] = o]
         /\ ex_ret' = [ex_ret EXCEPT ![ex_i] = ok]
         /\ ex_reported' = Report(ex_reported, ex_i, ok)
         /\ IF SeqAbort(ok, ex_args.fail_fast)
            THEN /\ ex_result' = "Err"
                 /\ ex_pc' = "done"
                 /\ ex_i' = ex_i
            ELSE /\ ex_result' = ex_result
                 /\ ex_pc' = ex_pc
                 /\ ex_i' = ex_i + 1
    /\ ex_st' = [ex_st EXCEPT ![ex_i] = "handled"]
    /\ UNCHANGED <<nonExecVars, ex_args, ex_n, ex_parallel, ex_started, ex_order, ex_failed>>

\* exec.rs 78-81: the sequential loop is over, `Ok(())`
SeqReturn ==
    /\ ex_pc = "seq"
    /\ ex_i > ex_n
    /\ ex_result' = "Ok"
    /\ ex_pc' = "done"
    /\ UNCHANGED <<nonExecVars, ex_args, ex_n, ex_parallel, ex_i, ex_st, ex_outcome,
                   ex_ret, ex_started, ex_order, ex_reported, ex_failed>>

NextExec ==
    \/ ExecBegin
    \/ Spawn
    \/ SpawnEnd
    \/ \E t \in Targets : ThreadStart(t)
    \/ \E t \in Targets : ThreadExit(t)
    \/ Join
    \/ ParReturn
    \/ SeqStart
    \/ SeqExit
    \/ SeqReturn


(***************************************************************************)
(* Strings and paths                                                       *)
(* A string is a sequence of characters; a PathBuf is the string it holds. *)
(***************************************************************************)
MaxLen == 2

Chars == {"/", "a"}

Strs == UNION {[1..k -> Chars] : k \in 0..MaxLen}

\* Option<String> values a source can hold
OptStrs == {None} \cup {Some(v) : v \in Strs}

\* str::is_empty
StrIsEmpty(s) == Len(s) = 0

\* str::trim_start_matches(c)
RECURSIVE TrimStartMatches(_, _)
TrimStartMatches(s, c) ==
    IF s # <<>> /\ Head(s) = c THEN TrimStartMatches(Tail(s), c) ELSE s

KeepLeadingSeparator(s) == s

\* `let s = s.trim_start_matches('/');`
StripLeadingSeparator(s) == TrimStartMatches(s, "/")

\* Path::is_absolute (Unix)
IsAbsolute(p) == p # <<>> /\ Head(p) = "/"

\* Path::join / PathBuf::push (Unix): an absolute argument replaces the
\* path, otherwise a separator is added unless the path already ends in one
PathJoin(base, p) ==
    IF IsAbsolute(p) THEN p
    ELSE IF base # <<>> /\ base[Len(base)] # "/" THEN base \o <<"/">> \o p
    ELSE base \o p

\* Path::components (Unix): the normal components, repeated and trailing
\* separators dropped
RECURSIVE PathParts(_, _)
PathParts(s, cur) ==
    IF s = <<>> THEN (IF cur = <<>> THEN <<>> ELSE <<cur>>)
    ELSE IF Head(s) = "/"
         THEN (IF cur = <<>> THEN <<>> ELSE <<cur>>) \o PathParts(Tail(s), <<>>)
         ELSE PathParts(Tail(s), Append(cur, Head(s)))

Components(p) == [root |-> IsAbsolute(p), parts |-> PathParts(p, <<>>)]

\* PartialEq for Path: component-wise
PathEq(p, q) == Components(p) = Components(q)

(***************************************************************************)
(* resolve_subdir / resolve_worktree_dir                                   *)
(***************************************************************************)
\* Worktree roots the calls are made with
WtPaths == {<<"/", "w">>, <<"/", "w", "/">>}

\* What MetaStore::get returns: no entry, or an entry with its subdir field
MetaEntries == {None} \cup {Some([subdir |-> v]) : v \in OptStrs}

\* Config::default_subdir: GW_SUBDIR, else defaults.subdir of the merged files
DefaultSubdir(env_subdir, cfg_subdir) ==
    IF IsSome(env_subdir) THEN env_subdir ELSE cfg_subdir

\* `ctx.meta.get(wt_name).and_then(|m| m.subdir.clone())`
MetaSubdir(meta) == IF IsSome(meta) THEN Unwrap(meta).subdir ELSE None

SelectSubdirMetaFirst(cli_subdir, meta_subdir, config_subdir) ==
    OptOr(OptOr(meta_subdir, cli_subdir), config_subdir)

\* `cli_subdir.or(meta_subdir).or(config_subdir)`
SelectSubdir(cli_subdir, meta_subdir, config_subdir) ==
    OptOr(OptOr(cli_subdir, meta_subdir), config_subdir)

UsesSubdirWhenSome(subdir) == IsSome(subdir)

\* the match arm `Some(s) if !s.is_empty()`
UsesSubdir(subdir) == IsSome(subdir) /\ ~StrIsEmpty(Unwrap(subdir))

resolve_subdir(wt_path, cli_root, cli_subdir, meta_subdir, config_subdir) ==
    IF cli_root THEN wt_path
    ELSE LET subdir == SelectSubdir(cli_subdir, meta_subdir, config_subdir) IN
         IF UsesSubdir(subdir)
         THEN PathJoin(wt_path, StripLeadingSeparator(Unwrap(subdir)))
         ELSE wt_path

\* resolve_worktree_dir on an input record
resolve_worktree_dir(in) ==
    resolve_subdir(in.wt_path, in.cli_root, in.cli_subdir,
                   MetaSubdir(in.meta),
                   DefaultSubdir(in.env_subdir, in.cfg_subdir))

SubdirInputs ==
    [wt_path : WtPaths, cli_root : BOOLEAN, cli_subdir : OptStrs,
     meta : MetaEntries, env_subdir : OptStrs, cfg_subdir : OptStrs]

SubdirIdle ==
    /\ rs_in = [wt_path |-> <<"/", "w">>, cli_root |-> FALSE, cli_subdir |-> None,
                meta |-> None, env_subdir |-> None, cfg_subdir |-> None]
    /\ rs_pc = "idle"
    /\ rs_out = <<>>
    /\ rs_warn = FALSE

InitSubdir ==
    /\ rs_in \in SubdirInputs
    /\ rs_pc = "call"
    /\ rs_out = <<>>
    /\ rs_warn = FALSE

\* one call of resolve_worktree_dir; whether the target exists on disk is
\* the file system's choice and only decides the warning
Resolve ==
    /\ rs_pc = "call"
    /\ rs_out' = resolve_worktree_dir(rs_in)
    /\ \E exists \in BOOLEAN :
         rs_warn' = (/\ ~rs_in.cli_root
                     /\ UsesSubdir(SelectSubdir(rs_in.cli_subdir, MetaSubdir(rs_in.meta),
                                       DefaultSubdir(rs_in.env_subdir, rs_in.cfg_subdir)))
                     /\ ~exists)
    /\ rs_pc' = "ret"
    /\ UNCHANGED <<nonSubVars, rs_in>>

NextSubdir == Resolve

(***************************************************************************)
(* gc                                                                      *)
(***************************************************************************)
MaxWts == 2

Wts == 1..MaxWts

\* `24 * 60 * 60`
DaySeconds == 24 * 60 * 60

\* Config::gc_stale_days: `self.gc.stale_days.unwrap_or(7)`
DefaultStaleDays == 7

gc_stale_days(cfg) == OptUnwrapOr(cfg, DefaultStaleDays)

\* Unix times of activity: a metadata last_activity_at and a last commit
\* six days before it
MetaTime == 1700000000

CommitTime == MetaTime - 6 * DaySeconds

\* Utc::now() of a scan iteration: one day after MetaTime (seven after
\* CommitTime), a second before, on and a second after
NowValues == {MetaTime + DaySeconds + e : e \in {-1, 0, 1}}

\* gc.stale_days of the merged configuration
StaleDaysConfigs == {None, Some(1), Some(20000)}

\* MetaStore::get(name): no entry, or an entry whose last_activity_at is
\* absent, not RFC 3339 (rfc3339 FALSE), or the RFC 3339 text of a time
ActivityStrings == {[rfc3339 |-> FALSE, ts |-> 0], [rfc3339 |-> TRUE, ts |-> MetaTime]}

GcMetaEntries ==
    {None} \cup {Some([last_activity_at |-> a]) : a \in {None} \cup {Some(x) : x \in ActivityStrings}}

\* What gc can read about one worktree of the listing:
\*   named   worktree_name_with_config is Some (the path is under the worktrees root)
\*   locked  the lock marker of that name exists
\*   status  dirty_files: None when git status fails, else Some(total)
\*   meta    the metadata entry of that name
\*   commit  last_commit_unix: None when git log fails or prints no number
\*   merged  branch_merged
WtFacts ==
    {f \in [named : BOOLEAN, locked : BOOLEAN, status : {None, Some(0), Some(1)},
            meta : GcMetaEntries, commit : {None, Some(CommitTime)},
            merged : BOOLEAN] : f.locked => f.named}

\* DateTime::parse_from_rfc3339(&t).ok().map(|dt| dt.timestamp())
ParseRfc3339(t) == IF t.rfc3339 THEN Some(t.ts) ELSE None

\* `meta.get(&name).and_then(|m| m.last_activity_at.clone())
\*      .and_then(|t| parse_from_rfc3339(&t).ok()).map(|dt| dt.timestamp())`
MetaLastActivity(meta) ==
    IF ~IsSome(meta) THEN None
    ELSE IF ~IsSome(Unwrap(meta).last_activity_at) THEN None
    ELSE ParseRfc3339(Unwrap(Unwrap(meta).last_activity_at))

\* `last_commit_unix(..).unwrap_or(0)` and `.unwrap_or(last_commit_time)`
LastActivity(f) == OptUnwrapOr(MetaLastActivity(f.meta), OptUnwrapOr(f.commit, 0))

IsStaleExclusive(now, last_activity, stale_days) ==
    now - last_activity > stale_days * DaySeconds

\* `let stale = now - last_activity >= stale_days * 24 * 60 * 60;`
IsStale(now, last_activity, stale_days) ==
    now - last_activity >= stale_days * DaySeconds

\* `stale || (dirty.total == 0 && branch_merged(..))`
IsCandidate(stale, total, merged) == stale \/ (total = 0 /\ merged)

\* gc.rs 564-585 for one worktree: how the iteration ends
\*   "unnamed" / "locked"  continue before anything is computed
\*   "error"               dirty_files failed, gc returns the git error
\*   "pushed" / "kept"     the worktree was classified
ScanVerdict(f, now, stale_days) ==
    IF ~f.named THEN "unnamed"
    ELSE IF f.locked THEN "locked"
    ELSE IF ~IsSome(f.status) THEN "error"
    ELSE IF IsCandidate(IsStale(now, LastActivity(f), stale_days),
                        Unwrap(f.status), f.merged)
         THEN "pushed"
         ELSE "kept"

NoFacts ==
    [named |-> FALSE, locked |-> FALSE, status |-> None, meta |-> None,
     commit |-> None, merged |-> FALSE]

NoIter == [wt |-> 0, facts |-> NoFacts, now |-> 0, verdict |-> "none"]

GcIdle ==
    /\ gc_args = [prune |-> FALSE]
    /\ gc_cfg = None
    /\ gc_n = 0
    /\ gc_pc = "idle"
    /\ gc_i = 1
    /\ gc_iter = NoIter
    /\ gc_candidates = <<>>
    /\ gc_printed = <<>>
    /\ gc_removed = {}
    /\ gc_result = "none"

InitGc ==
    /\ gc_args \in [prune : BOOLEAN]
    /\ gc_cfg \in StaleDaysConfigs
    /\ gc_n \in 0..MaxWts
    /\ gc_pc = "scan"
    /\ gc_i = 1
    /\ gc_iter = NoIter
    /\ gc_candidates = <<>>
    /\ gc_printed = <<>>
    /\ gc_removed = {}
    /\ gc_result = "none"

\* gc.rs 563-585: one iteration of the scan loop; the facts are what the
\* repository, the lock directory and the clock hold when it runs
GcVisit ==
    /\ gc_pc = "scan"
    /\ gc_i <= gc_n
    /\ \E f \in WtFacts, now \in NowValues :
         LET v == ScanVerdict(f, now, gc_stale_days(gc_cfg)) IN
         /\ gc_iter' = [wt |-> gc_i, facts |-> f, now |-> now, verdict |-> v]
         /\ gc_candidates' = IF v = "pushed" THEN Append(gc_candidates, gc_i)
                             ELSE gc_candidates
         /\ IF v = "error"
            THEN gc_pc' = "done" /\ gc_result' = "Err" /\ gc_i' = gc_i
            ELSE gc_pc' = gc_pc /\ gc_result' = gc_result /\ gc_i' = gc_i + 1
    /\ UNCHANGED <<nonGcVars, gc_args, gc_cfg, gc_n, gc_printed, gc_removed>>

\* gc.rs 587-593: the scan is over; without candidates gc prints so and returns
GcScanEnd ==
    /\ gc_pc = "scan"
    /\ gc_i > gc_n
    /\ IF gc_candidates = <<>>
       THEN /\ gc_printed' = Append(gc_printed, [kind |-> "no candidates", wt |-> 0])
            /\ gc_result' = "Ok"
            /\ gc_pc' = "done"
       ELSE /\ gc_printed' = gc_printed
            /\ gc_result' = gc_result
            /\ gc_pc' = "emit"
    /\ gc_i' = 1
    /\ UNCHANGED <<nonGcVars, gc_args, gc_cfg, gc_n, gc_iter, gc_candidates, gc_removed>>

\* gc.rs 594-601: the next candidate is pruned (the result of the removal
\* is dropped by `let _ =`) or listed
GcEmit ==
    /\ gc_pc = "emit"
    /\ gc_i <= Len(gc_candidates)
    /\ LET w == gc_candidates[gc_i] IN
       IF gc_args.prune
       THEN /\ \E removal_ok \in BOOLEAN :
                 gc_removed' = IF removal_ok THEN gc_removed \cup {w} ELSE gc_removed
            /\ gc_printed' = Append(gc_printed, [kind |-> "pruned", wt |-> w])
       ELSE /\ gc_removed' = gc_removed
            /\ gc_printed' = Append(gc_printed, [kind |-> "candidate", wt |-> w])
    /\ gc_i' = gc_i + 1
    /\ UNCHANGED <<nonGcVars, gc_args, gc_cfg, gc_n, gc_pc, gc_iter, gc_candidates, gc_result>>

\* gc.rs 601-603: `Ok(())`
GcReturn ==
    /\ gc_pc = "emit"
    /\ gc_i > Len(gc_candidates)
    /\ gc_result' = "Ok"
    /\ gc_pc' = "done"
    /\ UNCHANGED <<nonGcVars, gc_args, gc_cfg, gc_n, gc_i, gc_iter, gc_candidates,
                   gc_printed, gc_removed>>

NextGc ==
    \/ GcVisit
    \/ GcScanEnd
    \/ GcEmit
    \/ GcReturn

(***************************************************************************)
(* MetaStore (meta.rs): the in-memory metadata document and its methods    *)
(***************************************************************************)
MaxNotes == 2

\* logical worktree names
Names == {"a", "b"}

\* texts a note can have
Texts == {"x", "y"}

\* what now() returns (the RFC 3339 text of a clock reading)
Times == {1, 2}

\* what created_by() returns: "<user>@<host>"
Users == {"u@h"}

\* WorktreeMeta::default()
DefaultMeta ==
    [created_at |-> None, created_by |-> None, notes |-> <<>>, tags |-> <<>>,
     last_activity_at |-> None, subdir |-> None]

\* MetaData::default(): no entry for any name
EmptyData == [n \in Names |-> None]

\* MetaStore::get
MsGet(data, name) == data[name]

\* MetaStore::ensure: `entry(name).or_default()`
MsEnsure(data, name) ==
    IF IsSome(data[name]) THEN data ELSE [data EXCEPT ![name] = Some(DefaultMeta)]

MsSetCreatedOverwrite(data, name, now, who) ==
    LET d == MsEnsure(data, name) IN
    [d EXCEPT ![name] = Some([Unwrap(d[name]) EXCEPT !.created_at = Some(now),
                                                    !.created_by = Some(who)])]

\* MetaStore::set_created
MsSetCreated(data, name, now, who) ==
    LET d == MsEnsure(data, name)
        m == Unwrap(d[name])
    IN  [d EXCEPT ![name] =
            Some([m EXCEPT !.created_at = IF m.created_at = None THEN Some(now) ELSE @,
                           !.created_by = IF m.created_by = None THEN Some(who) ELSE @])]

\* MetaStore::set_last_activity
MsSetLastActivity(data, name, now) ==
    LET d == MsEnsure(data, name) IN
    [d EXCEPT ![name] = Some([Unwrap(d[name]) EXCEPT !.last_activity_at = Some(now)])]

\* MetaStore::add_note
MsAddNote(data, name, text) ==
    LET d == MsEnsure(data, name) IN
    [d EXCEPT ![name] = Some([Unwrap(d[name]) EXCEPT !.notes = Append(@, text)])]

\* MetaStore::set_subdir
MsSetSubdir(data, name, subdir) ==
    LET d == MsEnsure(data, name) IN
    [d EXCEPT ![name] = Some([Unwrap(d[name]) EXCEPT !.subdir = subdir])]

\* MetaStore::remove
MsRemove(data, name) == [data EXCEPT ![name] = None]

\* subdir values stored in a record
MetaSubdirs == {None, Some(<<"a">>)}

\* records a meta.json read at start-up can hold for a name
LoadedMetas ==
    {None, Some(DefaultMeta)} \cup
    {Some([DefaultMeta EXCEPT !.created_at = Some(1), !.created_by = by]) :
        by \in {None} \cup {Some(u) : u \in Users}}

MetaIdle ==
    /\ ms_data = EmptyData
    /\ ms_last = [op |-> "idle", name |-> "a"]

\* MetaStore::new: the document read from meta.json
InitMeta ==
    /\ ms_data \in [Names -> LoadedMetas]
    /\ ms_last = [op |-> "new", name |-> "a"]

CallSetCreated(name) ==
    /\ \E now \in Times, who \in Users : ms_data' = MsSetCreated(ms_data, name, now, who)
    /\ ms_last' = [op |-> "set_created", name |-> name]
    /\ UNCHANGED nonMetaVars

CallSetLastActivity(name) ==
    /\ \E now \in Times : ms_data' = MsSetLastActivity(ms_data, name, now)
    /\ ms_last' = [op |-> "set_last_activity", name |-> name]
    /\ UNCHANGED nonMetaVars

\* the number of notes of a record is capped by MaxNotes
CallAddNote(name) ==
    /\ IsSome(ms_data[name]) => Len(Unwrap(ms_data[name]).notes) < MaxNotes
    /\ \E text \in Texts : ms_data' = MsAddNote(ms_data, name, text)
    /\ ms_last' = [op |-> "add_note", name |-> name]
    /\ UNCHANGED nonMetaVars

CallSetSubdir(name) ==
    /\ \E subdir \in MetaSubdirs : ms_data' = MsSetSubdir(ms_data, name, subdir)
    /\ ms_last' = [op |-> "set_subdir", name |-> name]
    /\ UNCHANGED nonMetaVars

CallRemove(name) ==
    /\ ms_data' = MsRemove(ms_data, name)
    /\ ms_last' = [op |-> "remove", name |-> name]
    /\ UNCHANGED nonMetaVars

NextMeta ==
    \/ \E name \in Names : CallSetCreated(name)
    \/ \E name \in Names : CallSetLastActivity(name)
    \/ \E name \in Names : CallAddNote(name)
    \/ \E name \in Names : CallSetSubdir(name)
    \/ \E name \in Names : CallRemove(name)

(***************************************************************************)
(* Commands on one repository (cmd/mod.rs), each one a whole invocation:   *)
(* main.rs loads the metadata document, the command runs, the process ends *)
(***************************************************************************)
MaxRepoNotes == 1

\* Utc::now() of every invocation: one day after MetaTime, seven days after
\* CommitTime
RepoNow == MetaTime + DaySeconds

\* `Utc::now().to_rfc3339()`
ToRfc3339(t) == [rfc3339 |-> TRUE, ts |-> t]

\* text of a note
NoteText == "x"

\* records meta.json holds for a name when the first command starts
RepoLoadedMetas ==
    {None} \cup
    {Some([DefaultMeta EXCEPT !.created_at = Some(ToRfc3339(MetaTime)),
                              !.created_by = Some("u@h"),
                              !.last_activity_at = la]) :
        la \in {None, Some(ToRfc3339(MetaTime))}}

\* the record of a command: what it was asked and how it ended
\*   code    0 for Ok(()), else GwError.code
\*   msg     the prefix of GwError.message
\*   step    the git step that failed: "" when none did
\*   cands   gc: the candidates of the scan
\*   done    sync: the worktrees whose merge or rebase ran and succeeded;
\*           gc: the worktrees the scan classified
\*   errs    the worktrees in which the git step failed
Cmd(op, name) ==
    [op |-> op, name |-> name, force |-> FALSE, prune |-> FALSE, all |-> FALSE,
     cleanup |-> FALSE, code |-> 0, msg |-> "", step |-> "", cands |-> {},
     done |-> {}, errs |-> {}]

Ended(cmd, code, msg) == [cmd EXCEPT !.code = code, !.msg = msg]

RepoIdle ==
    /\ rp_wts = {}
    /\ rp_locks = {}
    /\ rp_disk = EmptyData
    /\ rp_last = Cmd("idle", "a")

InitRepo ==
    /\ rp_wts \in SUBSET Names
    /\ rp_locks \in SUBSET Names
    /\ rp_disk \in [Names -> RepoLoadedMetas]
    /\ rp_last = Cmd("start", "a")

\* `fs::write(&lock_path, b"")`
Lock(name) ==
    /\ \E io_ok \in BOOLEAN :
         IF io_ok
         THEN rp_locks' = rp_locks \cup {name} /\ rp_last' = Cmd("lock", name)
         ELSE rp_locks' = rp_locks /\ rp_last' = Ended(Cmd("lock", name), 1, "io")
    /\ UNCHANGED <<nonRepoVars, rp_wts, rp_disk>>

\* `if lock_path.exists() { fs::remove_file(&lock_path) }`
Unlock(name) ==
    /\ \E io_ok \in BOOLEAN :
         IF name \in rp_locks /\ ~io_ok
         THEN rp_locks' = rp_locks /\ rp_last' = Ended(Cmd("unlock", name), 1, "io")
         ELSE rp_locks' = rp_locks \ {name} /\ rp_last' = Cmd("unlock", name)
    /\ UNCHANGED <<nonRepoVars, rp_wts, rp_disk>>

\* MetaStore::save of the document `meta`, mapped to code 1 when it fails
SaveMeta(cmd, meta, io_ok) ==
    IF io_ok
    THEN rp_disk' = meta /\ rp_last' = cmd
    ELSE rp_disk' = rp_disk /\ rp_last' = Ended(cmd, 1, "io")

\* add, for the default path <worktrees root>/<name>; `git worktree add` or
\* MetaStore::save can fail
Add(name) ==
    \E subdir \in {None, Some(<<"/", "a">>)}, fault \in {"", "git", "save"} :
        LET cmd == Cmd("add", name)
            created == MsSetCreated(rp_disk, name, ToRfc3339(RepoNow), "u@h")
            meta == IF IsSome(subdir)
                    THEN MsSetSubdir(created, name,
                                     Some(TrimStartMatches(Unwrap(subdir), "/")))
                    ELSE created
        IN
        /\ IF name \in rp_wts
           THEN /\ rp_last' = Ended(cmd, 1, "worktree path already exists")
                /\ UNCHANGED <<rp_wts, rp_disk>>
           ELSE IF fault = "git"
           THEN /\ rp_last' = Ended(cmd, 2, "git")
                /\ UNCHANGED <<rp_wts, rp_disk>>
           ELSE /\ rp_wts' = rp_wts \cup {name}
                /\ SaveMeta(cmd, meta, fault # "save")
        /\ UNCHANGED <<nonRepoVars, rp_locks>>

\* the step of del that fails: none, the listing of find_worktree, the
\* status query of dirty_files, a dirty worktree, `git worktree remove`, or
\* MetaStore::save
DelFaults == {"", "listing", "status", "dirty", "remove", "save"}

LockBlocksUnlessForced(locks, name, force) == name \in locks /\ ~force

\* del 84: `if is_locked(&ctx.repo_root, &name)`
LockBlocks(locks, name, force) == name \in locks

DelRunMetadataFirst(wts, locks, disk, name, force, fault) ==
    LET same(code, msg) == [code |-> code, msg |-> msg, wts |-> wts, disk |-> disk] IN
    IF LockBlocks(locks, name, force) THEN same(1, "worktree is locked")
    ELSE IF fault = "listing" THEN same(2, "git")
    ELSE IF name \notin wts THEN same(1, "worktree not found")
    ELSE IF ~force /\ fault = "status" THEN same(2, "git")
    ELSE IF ~force /\ fault = "dirty" THEN same(1, "worktree is dirty (use --force)")
    ELSE IF fault = "save" THEN same(1, "io")
    ELSE IF fault = "remove"
         THEN [code |-> 2, msg |-> "git", wts |-> wts, disk |-> MsRemove(disk, name)]
         ELSE [code |-> 0, msg |-> "", wts |-> wts \ {name}, disk |-> MsRemove(disk, name)]

\* del: the result, the worktrees and the document it leaves.  The result
\* of `git branch -D` is dropped, so --delete-branch changes nothing here.
DelRun(wts, locks, disk, name, force, fault) ==
    LET same(code, msg) == [code |-> code, msg |-> msg, wts |-> wts, disk |-> disk] IN
    IF LockBlocks(locks, name, force) THEN same(1, "worktree is locked")
    ELSE IF fault = "listing" THEN same(2, "git")
    ELSE IF name \notin wts THEN same(1, "worktree not found")
    ELSE IF ~force /\ fault = "status" THEN same(2, "git")
    ELSE IF ~force /\ fault = "dirty" THEN same(1, "worktree is dirty (use --force)")
    ELSE IF fault = "remove" THEN same(2, "git")
    ELSE IF fault = "save"
         THEN [code |-> 1, msg |-> "io", wts |-> wts \ {name}, disk |-> disk]
         ELSE [code |-> 0, msg |-> "", wts |-> wts \ {name}, disk |-> MsRemove(disk, name)]

Del(name) ==
    \E force \in BOOLEAN, fault \in DelFaults :
        LET r == DelRun(rp_wts, rp_locks, rp_disk, name, force, fault) IN
        /\ rp_wts' = r.wts
        /\ rp_disk' = r.disk
        /\ rp_last' = Ended([Cmd("del", name) EXCEPT !.force = force], r.code, r.msg)
        /\ UNCHANGED <<nonRepoVars, rp_locks>>

\* note; a record holds at most MaxRepoNotes notes
Note(name) ==
    /\ IsSome(rp_disk[name]) => Len(Unwrap(rp_disk[name]).notes) < MaxRepoNotes
    /\ \E io_ok \in BOOLEAN :
         SaveMeta(Cmd("note", name), MsAddNote(rp_disk, name, NoteText), io_ok)
    /\ UNCHANGED <<nonRepoVars, rp_wts, rp_locks>>

\* subdir --unset and subdir <path>; without either it only prints
Subdir(name) ==
    /\ \E io_ok \in BOOLEAN, arg \in {"unset", "path", "show"} :
         IF arg = "show"
         THEN rp_disk' = rp_disk /\ rp_last' = Cmd("subdir", name)
         ELSE SaveMeta(Cmd("subdir", name),
                       MsSetSubdir(rp_disk, name,
                                   IF arg = "unset" THEN None
                                   ELSE Some(TrimStartMatches(<<"/", "a">>, "/"))),
                       io_ok)
    /\ UNCHANGED <<nonRepoVars, rp_wts, rp_locks>>

\* the order in which `git worktree list` prints the worktrees
ListingOrder == <<"a", "b">>

\* what git answers about one worktree while gc scans it
GcEnvs ==
    {[status |-> None, merged |-> FALSE], [status |-> Some(0), merged |-> TRUE],
     [status |-> Some(0), merged |-> FALSE], [status |-> Some(1), merged |-> FALSE]}

\* gc 563-585 from the i-th worktree of the listing on: the scan ends with
\* the git error of dirty_files (code 2) or with its candidates
RECURSIVE GcScan(_, _, _, _, _, _)
GcScan(i, acc, wts, locks, disk, env) ==
    IF i > Len(ListingOrder) THEN acc
    ELSE LET n == ListingOrder[i]
             f == [named |-> TRUE, locked |-> n \in locks, status |-> env[n].status,
                   meta |-> MsGet(disk, n), commit |-> Some(CommitTime),
                   merged |-> env[n].merged]
             v == ScanVerdict(f, RepoNow, gc_stale_days(None))
         IN  IF n \notin wts \/ v = "locked" THEN GcScan(i + 1, acc, wts, locks, disk, env)
             ELSE IF v = "error" THEN [acc EXCEPT !.code = 2, !.errs = {n}]
             ELSE GcScan(i + 1,
                         [acc EXCEPT !.done = @ \cup {n},
                                     !.cands = IF v = "pushed" THEN @ \cup {n} ELSE @],
                         wts, locks, disk, env)

GcRemovableAlways(prune, cands) == SUBSET cands

\* gc 594-601: the sets of worktrees a run can remove; only --prune runs
\* `git worktree remove --force`, on the candidates, and drops its result
GcRemovable(prune, cands) == IF prune THEN SUBSET cands ELSE {{}}

\* gc: it reads the document and the lock markers and writes neither
Gc ==
    \E prune \in BOOLEAN, env \in [Names -> GcEnvs] :
        LET r == GcScan(1, [code |-> 0, cands |-> {}, done |-> {}, errs |-> {}],
                        rp_wts, rp_locks, rp_disk, env)
            cmd == [Cmd("gc", "a") EXCEPT !.prune = prune, !.cands = r.cands,
                                          !.done = r.done, !.errs = r.errs]
        IN
        /\ IF r.code # 0
           THEN /\ rp_wts' = rp_wts
                /\ rp_last' = [Ended(cmd, 2, "git") EXCEPT !.step = "status"]
           ELSE /\ \E removed \in GcRemovable(prune, r.cands) : rp_wts' = rp_wts \ removed
                /\ rp_last' = cmd
        /\ UNCHANGED <<nonRepoVars, rp_locks, rp_disk>>

\* the git step of apply that fails: none, the listing of find_worktree,
\* current_branch, the status of the target, a dirty target, checkout, or
\* the merge / squash / rebase itself
ApplyFaults == {"", "listing", "branch", "status", "dirty", "checkout", "merge"}

\* apply 249-285: how it ends before the cleanup
ApplyRun(wts, name, fault) ==
    IF fault = "listing" THEN [code |-> 2, msg |-> "git"]
    ELSE IF name \notin wts THEN [code |-> 1, msg |-> "worktree not found"]
    ELSE IF fault \in {"branch", "status", "checkout"} THEN [code |-> 2, msg |-> "git"]
    ELSE IF fault = "dirty" THEN [code |-> 1, msg |-> "target worktree is dirty"]
    ELSE IF fault = "merge" THEN [code |-> 4, msg |-> "apply failed: "]
    ELSE [code |-> 0, msg |-> ""]

\* apply; --cleanup runs del with force and delete_branch
Apply(name) ==
    \E cleanup \in BOOLEAN, fault \in ApplyFaults \cup {"remove", "save"} :
        LET cmd == [Cmd("apply", name) EXCEPT !.cleanup = cleanup]
            r == ApplyRun(rp_wts, name, fault)
            d == DelRun(rp_wts, rp_locks, rp_disk, name, TRUE, fault)
        IN
        /\ IF r.code # 0
           THEN /\ rp_last' = [Ended(cmd, r.code, r.msg) EXCEPT
                                  !.step = IF r.msg = "worktree not found" THEN "" ELSE fault]
                /\ UNCHANGED <<rp_wts, rp_disk>>
           ELSE IF cleanup
           THEN /\ rp_wts' = d.wts
                /\ rp_disk' = d.disk
                /\ rp_last' = Ended(cmd, d.code, d.msg)
           ELSE /\ rp_last' = cmd
                /\ UNCHANGED <<rp_wts, rp_disk>>
        /\ UNCHANGED <<nonRepoVars, rp_locks>>

\* the git steps of sync that can fail before its loop: `git fetch origin
\* --prune`, the worktree listing, resolve_base; each `.map_err(git_error)?`
SyncFaults == {"fetch", "listing", "base"}

\* sync 339-341: `return Err(GwError::new(4, format!("sync failed: {}", err)))`
SyncLoopFail(acc, n) == [acc EXCEPT !.errs = @ \cup {n}, !.code = 4,
                                    !.msg = "sync failed: ", !.stop = TRUE]

\* sync 328-342 from the i-th target on; git_ok[n] is the result of the
\* merge or rebase in worktree n
RECURSIVE SyncLoop(_, _, _, _, _)
SyncLoop(i, acc, targets, wts, git_ok) ==
    IF i > Len(targets) \/ acc.stop THEN acc
    ELSE LET n == targets[i] IN
         IF n \notin wts
         THEN [acc EXCEPT !.code = 1, !.msg = "worktree not found", !.stop = TRUE]
         ELSE IF ~git_ok[n]
         THEN SyncLoop(i + 1, SyncLoopFail(acc, n), targets, wts, git_ok)
         ELSE SyncLoop(i + 1, [acc EXCEPT !.done = @ \cup {n}], targets, wts, git_ok)

\* the worktrees of the listing, in its order
RECURSIVE Listed(_, _)
Listed(i, wts) ==
    IF i > Len(ListingOrder) THEN <<>>
    ELSE (IF ListingOrder[i] \in wts THEN <<ListingOrder[i]>> ELSE <<>>)
         \o Listed(i + 1, wts)

\* sync on `targets`: the ways it can end.  A step before the loop fails,
\* or the loop runs in the given mode.
SyncEnds(cmd, targets, wts) ==
    {[Ended(cmd, 2, "git") EXCEPT !.step = fault] : fault \in SyncFaults}
    \cup
    {LET r == SyncLoop(1, [code |-> 0, msg |-> "", done |-> {}, errs |-> {},
                           stop |-> FALSE], targets, wts, x[2])
     IN  [Ended(cmd, r.code, r.msg) EXCEPT !.step = IF r.code = 4 THEN x[1] ELSE "",
                                           !.done = r.done, !.errs = r.errs] :
        x \in {"merge", "rebase"} \X [Names -> BOOLEAN]}

\* sync <name>; the metadata document is never touched
Sync(name) ==
    /\ rp_last' \in SyncEnds(Cmd("sync", name), <<name>>, rp_wts)
    /\ UNCHANGED <<nonRepoVars, rp_wts, rp_locks, rp_disk>>

\* sync --all
SyncAll ==
    /\ rp_last' \in SyncEnds([Cmd("sync", "a") EXCEPT !.all = TRUE],
                             Listed(1, rp_wts), rp_wts)
    /\ UNCHANGED <<nonRepoVars, rp_wts, rp_locks, rp_disk>>

\* verify: the listing of find_worktree fails, or a verification command
\* cannot be launched or exits non-zero
Verify(name) ==
    /\ \E fault \in {"", "listing", "run"} :
         rp_last' =
           IF fault = "listing"
           THEN [Ended(Cmd("verify", name), 2, "git") EXCEPT !.step = fault]
           ELSE IF name \notin rp_wts
           THEN Ended(Cmd("verify", name), 1, "worktree not found")
           ELSE IF fault = "run"
           THEN Ended(Cmd("verify", name), 3, "verify failed: ")
           ELSE Cmd("verify", name)
    /\ UNCHANGED <<nonRepoVars, rp_wts, rp_locks, rp_disk>>

\* exec <name> -- <command>: exec_cmd never reads or writes the document
Exec(name) ==
    /\ \E fault \in {"", "listing", "run"} :
         rp_last' =
           IF fault = "listing"
           THEN [Ended(Cmd("exec", name), 2, "git") EXCEPT !.step = fault]
           ELSE IF name \notin rp_wts
           THEN Ended(Cmd("exec", name), 1, "worktree not found")
           ELSE IF fault = "run"
           THEN Ended(Cmd("exec", name), 1, "exec failed")
           ELSE Cmd("exec", name)
    /\ UNCHANGED <<nonRepoVars, rp_wts, rp_locks, rp_disk>>

\* the commands that add and remove worktrees and lock markers
NextRepo ==
    \/ \E name \in Names : Add(name)
    \/ \E name \in Names : Del(name)
    \/ \E name \in Names : Lock(name)
    \/ \E name \in Names : Unlock(name)
    \/ Gc
    \/ \E name \in Names : Apply(name)

\* the commands that work in the worktrees there are
NextBatch ==
    \/ \E name \in Names : Sync(name)
    \/ SyncAll
    \/ \E name \in Names : Apply(name)
    \/ \E name \in Names : Verify(name)
    \/ \E name \in Names : Exec(name)
    \/ Gc

\* the commands that only write the metadata document
NextAnnotate ==
    \/ \E name \in Names : Note(name)
    \/ \E name \in Names : Subdir(name)

(***************************************************************************)
(* Two gw processes run `note` on one repository at the same time.  Each   *)
(* loads meta.json when it starts (main.rs run, MetaStore::new) and writes *)
(* the whole document back when the command saves (MetaStore::save).       *)
(***************************************************************************)
Procs == {1, 2}

\* documents meta.json can hold before the processes start
RaceDocs ==
    [Names -> {None, Some([DefaultMeta EXCEPT !.created_at = Some(1),
                                              !.created_by = Some("u@h"),
                                              !.notes = <<"x">>])}]

SaveMergedEntry(disk, data, name) == [disk EXCEPT ![name] = data[name]]

\* MetaStore::save: `fs::write(&self.path, serde_json::to_string_pretty(&self.data))`
\* replaces the file by the document of this process
SaveDocument(disk, data, name) == data

RaceIdle ==
    /\ rc_init = EmptyData
    /\ rc_disk = EmptyData
    /\ rc_args = [p \in Procs |-> [name |-> "a", text |-> "x"]]
    /\ rc_pc = [p \in Procs |-> "idle"]
    /\ rc_meta = [p \in Procs |-> EmptyData]
    /\ rc_result = [p \in Procs |-> "none"]
    /\ rc_order = <<>>

InitRace ==
    /\ rc_init \in RaceDocs
    /\ rc_disk = rc_init
    /\ rc_args \in [Procs -> [name : Names, text : Texts]]
    /\ rc_pc = [p \in Procs |-> "start"]
    /\ rc_meta = [p \in Procs |-> EmptyData]
    /\ rc_result = [p \in Procs |-> "none"]
    /\ rc_order = <<>>

\* main.rs 66: `MetaStore::new(&repo_root)` reads the file into ctx.meta
RaceLoad(p) ==
    /\ rc_pc[p] = "start"
    /\ rc_meta' = [rc_meta EXCEPT ![p] = rc_disk]
    /\ rc_pc' = [rc_pc EXCEPT ![p] = "loaded"]
    /\ UNCHANGED <<nonRaceVars, rc_init, rc_disk, rc_args, rc_result, rc_order>>

\* note: add_note on a clone of ctx.meta, then save; a failed write is
\* code 1
RaceNote(p) ==
    /\ rc_pc[p] = "loaded"
    /\ \E io_ok \in BOOLEAN :
         LET data == MsAddNote(rc_meta[p], rc_args[p].name, rc_args[p].text) IN
         IF io_ok
         THEN /\ rc_disk' = SaveDocument(rc_disk, data, rc_args[p].name)
              /\ rc_order' = Append(rc_order, p)
              /\ rc_result' = [rc_result EXCEPT ![p] = "Ok"]
         ELSE /\ rc_disk' = rc_disk
              /\ rc_order' = rc_order
              /\ rc_result' = [rc_result EXCEPT ![p] = "Err"]
    /\ rc_pc' = [rc_pc EXCEPT ![p] = "done"]
    /\ UNCHANGED <<nonRaceVars, rc_init, rc_args, rc_meta>>

NextRace ==
    \/ \E p \in Procs : RaceLoad(p)
    \/ \E p \in Procs : RaceNote(p)

(***************************************************************************)
(* Configuration (config.rs): Config::load, merge and the getters          *)
(***************************************************************************)
MaxSetKeys == 2

\* the keys of [defaults], [gc] and [verify]
DefaultsKeys == {"base", "worktrees_dir", "branch_prefix", "subdir"}

GcKeys == {"stale_days"}

VerifyKeys == {"rust", "node", "python"}

Keys == DefaultsKeys \cup GcKeys \cup VerifyKeys

\* the settings spec.md calls scalar defaults
ScalarSettings == DefaultsKeys \cup GcKeys

\* the section of a key
SectionOf(key) ==
    IF key \in DefaultsKeys THEN DefaultsKeys
    ELSE IF key \in GcKeys THEN GcKeys
    ELSE VerifyKeys

\* Config::default(): every key None
DefaultConfig == [key \in Keys |-> None]

\* the value a source gives to a key: stale_days is an i64, the rest strings
SourceValue(key, source) ==
    IF key = "stale_days"
    THEN (IF source = "env" THEN 3 ELSE IF source = "project" THEN 14 ELSE 30)
    ELSE source

\* parsed files of a source that set at most MaxSetKeys keys
ConfigFiles(source) ==
    {[key \in Keys |-> IF key \in set THEN Some(SourceValue(key, source)) ELSE None] :
        set \in {x \in SUBSET Keys : Cardinality(x) <= MaxSetKeys}}

\* no config.toml at the path
NoFile == [exists |-> FALSE, valid |-> TRUE, cfg |-> DefaultConfig]

\* a config.toml: absent, not valid TOML for Config, or parsed
ConfigFileStates(source) ==
    {NoFile, [exists |-> TRUE, valid |-> FALSE, cfg |-> DefaultConfig]}
    \cup {[exists |-> TRUE, valid |-> TRUE, cfg |-> f] : f \in ConfigFiles(source)}

\* environments: for each scalar setting an override variable is set or not
Environments ==
    {[key \in ScalarSettings |-> IF key \in set THEN Some(SourceValue(key, "env")) ELSE None] :
        set \in SUBSET ScalarSettings}

MergeBySection(base, override_cfg) ==
    [key \in Keys |->
        IF \E k \in SectionOf(key) : IsSome(override_cfg[k])
        THEN override_cfg[key] ELSE base[key]]

\* merge: `override_cfg.<section>.<key>.or(base.<section>.<key>)` for every key
merge(base, override_cfg) ==
    [key \in Keys |-> OptOr(override_cfg[key], base[key])]

\* one `if path.exists() { read, parse, merge }` of Config::load; the `?`
\* on the parse returns the error
LoadFile(loaded, file) ==
    IF ~loaded.ok \/ ~file.exists THEN loaded
    ELSE IF ~file.valid THEN [loaded EXCEPT !.ok = FALSE]
    ELSE [loaded EXCEPT !.cfg = merge(@, file.cfg)]

\* Config::load: defaults, then the global file, then the project file
ConfigLoad(global, project) ==
    LoadFile(LoadFile([ok |-> TRUE, cfg |-> DefaultConfig], global), project)

\* the environment variables the getters read: GW_WORKTREES_DIR,
\* GW_DEFAULT_BASE and GW_SUBDIR
EnvRead == {"worktrees_dir", "base", "subdir"}

\* the literals of the `unwrap_or` / `unwrap_or_else` of the getters;
\* default_base and default_subdir return the Option itself
BuiltIn ==
    [key \in Keys |->
        IF key = "worktrees_dir" THEN Some(".worktrees")
        ELSE IF key = "branch_prefix" THEN Some("logan/")
        ELSE IF key = "stale_days" THEN Some(DefaultStaleDays)
        ELSE IF key = "rust" THEN Some("cargo test")
        ELSE IF key = "node" THEN Some("npm test")
        ELSE IF key = "python" THEN Some("pytest")
        ELSE None]

\* the getter of a key (worktrees_dir, branch_prefix, default_base,
\* default_subdir, gc_stale_days, verify_rust, verify_node, verify_python),
\* as an Option: None when default_base or default_subdir returns None
Getter(config, env, key) ==
    IF key \in EnvRead /\ IsSome(env[key]) THEN env[key]
    ELSE OptOr(config[key], BuiltIn[key])

ConfIdle ==
    /\ cf_env = [key \in ScalarSettings |-> None]
    /\ cf_global = NoFile
    /\ cf_project = NoFile
    /\ cf_pc = "idle"
    /\ cf_config = DefaultConfig
    /\ cf_eff = DefaultConfig

InitConf ==
    /\ cf_env \in Environments
    /\ cf_global \in ConfigFileStates("global")
    /\ cf_project \in ConfigFileStates("project")
    /\ cf_pc = "start"
    /\ cf_config = DefaultConfig
    /\ cf_eff = DefaultConfig

\* main.rs 61: `Config::load(&repo_root)`; an error ends the process, code 1
Load ==
    /\ cf_pc = "start"
    /\ LET c == ConfigLoad(cf_global, cf_project) IN
       IF c.ok
       THEN cf_pc' = "loaded" /\ cf_config' = c.cfg
       ELSE cf_pc' = "failed" /\ cf_config' = cf_config
    /\ UNCHANGED <<nonConfVars, cf_env, cf_global, cf_project, cf_eff>>

\* the command reads the settings through the getters
ReadSettings ==
    /\ cf_pc = "loaded"
    /\ cf_eff' = [key \in Keys |-> Getter(cf_config, cf_env, key)]
    /\ cf_pc' = "read"
    /\ UNCHANGED <<nonConfVars, cf_env, cf_global, cf_project, cf_config>>

NextConf ==
    \/ Load
    \/ ReadSettings

(***************************************************************************)
(* exec_cmd with explicit worktree names (cmd/exec.rs 5-41): the names are *)
(* resolved into `targets`, then the commands run as in the exec model     *)
(***************************************************************************)
\* the sequences of 1..MaxTargets names a command line can give
RECURSIVE NameSeqs(_)
NameSeqs(n) ==
    IF n = 0 THEN {<<>>}
    ELSE {Append(q, name) : q \in NameSeqs(n - 1), name \in Names}

NameLists == UNION {NameSeqs(n) : n \in 1..MaxTargets}

\* find_worktree: the listed worktree of that logical name, if any
FindWorktree(wts, name) == IF name \in wts THEN Some(name) ELSE None

ResolvedOrSkipped(found) == IF IsSome(found) THEN "push" ELSE "skip"

\* exec.rs 30-31: `find_worktree(ctx, name)?.ok_or_else(|| GwError::new(1,
\* "worktree not found"))?`
Resolved(found) == IF IsSome(found) THEN "push" ELSE "not found"

NamesIdle ==
    /\ xr_args = [worktrees |-> <<>>, parallel |-> FALSE, fail_fast |-> FALSE]
    /\ xr_wts = {}
    /\ xr_pc = "idle"
    /\ xr_i = 1
    /\ xr_targets = <<>>
    /\ xr_result = [code |-> 0, msg |-> ""]

InitNames ==
    /\ xr_args \in [worktrees : NameLists, parallel : BOOLEAN, fail_fast : BOOLEAN]
    /\ xr_wts \in SUBSET Names
    /\ xr_pc = "resolve"
    /\ xr_i = 1
    /\ xr_targets = <<>>
    /\ xr_result = [code |-> 0, msg |-> ""]

\* exec.rs 29-40: one iteration of `for name in &args.worktrees`; the
\* listing of find_worktree can fail (git_error, code 2)
ResolveName ==
    /\ xr_pc = "resolve"
    /\ xr_i <= Len(xr_args.worktrees)
    /\ \E listing_ok \in BOOLEAN :
         LET name == xr_args.worktrees[xr_i]
             r == Resolved(FindWorktree(xr_wts, name))
         IN  IF ~listing_ok
             THEN /\ xr_result' = [code |-> 2, msg |-> "git"]
                  /\ xr_pc' = "done"
                  /\ UNCHANGED <<xr_i, xr_targets>>
             ELSE IF r = "not found"
             THEN /\ xr_result' = [code |-> 1, msg |-> "worktree not found"]
                  /\ xr_pc' = "done"
                  /\ UNCHANGED <<xr_i, xr_targets>>
             ELSE /\ xr_targets' = IF r = "push" THEN Append(xr_targets, name)
                                   ELSE xr_targets
                  /\ xr_i' = xr_i + 1
                  /\ UNCHANGED <<xr_pc, xr_result>>
    /\ UNCHANGED <<nonNamesVars, xr_args, xr_wts>>

\* exec.rs 41-43: the loop is over; exec_cmd goes on with `targets`
ResolveEnd ==
    /\ xr_pc = "resolve"
    /\ xr_i > Len(xr_args.worktrees)
    /\ xr_pc' = "run"
    /\ ex_pc = "idle"
    /\ ex_pc' = "start"
    /\ ex_n' = Len(xr_targets)
    /\ ex_args' = [parallel |-> xr_args.parallel, fail_fast |-> xr_args.fail_fast]
    /\ UNCHANGED <<nonNamesExecVars, xr_args, xr_wts, xr_i, xr_targets, xr_result,
                   ex_parallel, ex_i, ex_st, ex_outcome, ex_ret, ex_started,
                   ex_order, ex_reported, ex_failed, ex_result>>

NextNames ==
    \/ ResolveName
    \/ ResolveEnd
    \/ NextExec

(***************************************************************************)
(* del or gc --prune runs while another process runs lock (cmd/mod.rs):    *)
(* every file-system or git call of the removing command is a step, and    *)
(* the lock command can write its marker between any two of them           *)
(***************************************************************************)
Running == [code |-> -1, msg |-> ""]

LockRaceIdle ==
    /\ lr_cmd = [op |-> "none", name |-> "a", force |-> FALSE]
    /\ lr_lockname = "a"
    /\ lr_wts = {}
    /\ lr_locks = {}
    /\ lr_disk = EmptyData
    /\ lr_pc = "idle"
    /\ lr_lpc = "idle"
    /\ lr_i = 1
    /\ lr_cands = <<>>
    /\ lr_result = Running

\* `gw del <name> [--force]` or `gw gc --prune`, and `gw lock <name>`
InitLockRace ==
    /\ lr_cmd \in [op : {"del"}, name : Names, force : BOOLEAN]
                  \cup {[op |-> "gc", name |-> "a", force |-> FALSE]}
    /\ lr_lockname \in Names
    /\ lr_wts \in SUBSET Names
    /\ lr_locks \in SUBSET Names
    /\ lr_disk \in [Names -> RepoLoadedMetas]
    /\ lr_pc = IF lr_cmd.op = "del" THEN "check" ELSE "list"
    /\ lr_lpc = "start"
    /\ lr_i = 1
    /\ lr_cands = <<>>
    /\ lr_result = Running

LrEnd(code, msg) == lr_pc' = "done" /\ lr_result' = [code |-> code, msg |-> msg]

\* lock 543-548: `fs::write(&lock_path, b"")`
LrLock ==
    /\ lr_lpc = "start"
    /\ lr_locks' = lr_locks \cup {lr_lockname}
    /\ lr_lpc' = "done"
    /\ UNCHANGED <<nonLockRaceVars, lr_cmd, lr_lockname, lr_wts, lr_disk, lr_pc, lr_i,
                   lr_cands, lr_result>>

\* del 84-86: `if is_locked(&ctx.repo_root, &name)`
DelCheckLock ==
    /\ lr_pc = "check"
    /\ IF LockBlocks(lr_locks, lr_cmd.name, lr_cmd.force)
       THEN LrEnd(1, "worktree is locked")
       ELSE lr_pc' = "find" /\ lr_result' = lr_result
    /\ UNCHANGED <<nonLockRaceVars, lr_cmd, lr_lockname, lr_wts, lr_locks, lr_disk, lr_lpc,
                   lr_i, lr_cands>>

\* del 88-92: find_worktree
DelFind ==
    /\ lr_pc = "find"
    /\ \E listing_ok \in BOOLEAN :
         IF ~listing_ok THEN LrEnd(2, "git")
         ELSE IF ~IsSome(FindWorktree(lr_wts, lr_cmd.name)) THEN LrEnd(1, "worktree not found")
         ELSE /\ lr_pc' = IF lr_cmd.force THEN "remove" ELSE "status"
              /\ lr_result' = lr_result
    /\ UNCHANGED <<nonLockRaceVars, lr_cmd, lr_lockname, lr_wts, lr_locks, lr_disk, lr_lpc,
                   lr_i, lr_cands>>

\* del 94-99: dirty_files, without --force
DelStatus ==
    /\ lr_pc = "status"
    /\ \E status \in {None, Some(0), Some(1)} :
         IF ~IsSome(status) THEN LrEnd(2, "git")
         ELSE IF Unwrap(status) > 0 THEN LrEnd(1, "worktree is dirty (use --force)")
         ELSE lr_pc' = "remove" /\ lr_result' = lr_result
    /\ UNCHANGED <<nonLockRaceVars, lr_cmd, lr_lockname, lr_wts, lr_locks, lr_disk, lr_lpc,
                   lr_i, lr_cands>>

\* del 101-107: `git worktree remove [--force] <path>`
DelRemove ==
    /\ lr_pc = "remove"
    /\ \E git_ok \in BOOLEAN :
         IF git_ok
         THEN lr_wts' = lr_wts \ {lr_cmd.name} /\ lr_pc' = "meta" /\ lr_result' = lr_result
         ELSE lr_wts' = lr_wts /\ LrEnd(2, "git")
    /\ UNCHANGED <<nonLockRaceVars, lr_cmd, lr_lockname, lr_locks, lr_disk, lr_lpc, lr_i,
                   lr_cands>>

\* del 116-120: meta.remove, meta.save, Ok(())
DelMeta ==
    /\ lr_pc = "meta"
    /\ \E io_ok \in BOOLEAN :
         IF io_ok
         THEN lr_disk' = MsRemove(lr_disk, lr_cmd.name) /\ LrEnd(0, "")
         ELSE lr_disk' = lr_disk /\ LrEnd(1, "io")
    /\ UNCHANGED <<nonLockRaceVars, lr_cmd, lr_lockname, lr_wts, lr_locks, lr_lpc, lr_i,
                   lr_cands>>

\* gc 559: `ctx.git.worktrees()`; only gc itself removes a worktree, and
\* only after its scan, so the listing it holds is lr_wts while it scans
GcList ==
    /\ lr_pc = "list"
    /\ \E listing_ok \in BOOLEAN :
         IF listing_ok THEN lr_pc' = "scan" /\ lr_result' = lr_result ELSE LrEnd(2, "git")
    /\ UNCHANGED <<nonLockRaceVars, lr_cmd, lr_lockname, lr_wts, lr_locks, lr_disk, lr_lpc,
                   lr_i, lr_cands>>

\* gc 563-585: one iteration of the scan; is_locked is read here
GcScanOne ==
    /\ lr_pc = "scan"
    /\ lr_i <= Len(ListingOrder)
    /\ \E env \in GcEnvs :
         LET n == ListingOrder[lr_i]
             f == [named |-> TRUE, locked |-> n \in lr_locks, status |-> env.status,
                   meta |-> MsGet(lr_disk, n), commit |-> Some(CommitTime),
                   merged |-> env.merged]
             v == ScanVerdict(f, RepoNow, gc_stale_days(None))
         IN  IF n \notin lr_wts \/ v = "locked"
             THEN lr_i' = lr_i + 1 /\ UNCHANGED <<lr_cands, lr_pc, lr_result>>
             ELSE IF v = "error"
             THEN LrEnd(2, "git") /\ UNCHANGED <<lr_i, lr_cands>>
             ELSE /\ lr_i' = lr_i + 1
                  /\ lr_cands' = IF v = "pushed" THEN Append(lr_cands, n) ELSE lr_cands
                  /\ UNCHANGED <<lr_pc, lr_result>>
    /\ UNCHANGED <<nonLockRaceVars, lr_cmd, lr_lockname, lr_wts, lr_locks, lr_disk, lr_lpc>>

\* gc 587-592: the scan is over
GcScanOver ==
    /\ lr_pc = "scan"
    /\ lr_i > Len(ListingOrder)
    /\ IF lr_cands = <<>> THEN LrEnd(0, "") ELSE lr_pc' = "prune" /\ lr_result' = lr_result
    /\ lr_i' = 1
    /\ UNCHANGED <<nonLockRaceVars, lr_cmd, lr_lockname, lr_wts, lr_locks, lr_disk, lr_lpc,
                   lr_cands>>

\* gc 594-597 with --prune: `git worktree remove --force` on the next
\* candidate, its result dropped
GcPruneOne ==
    /\ lr_pc = "prune"
    /\ lr_i <= Len(lr_cands)
    /\ \E git_ok \in BOOLEAN :
         lr_wts' = IF git_ok THEN lr_wts \ {lr_cands[lr_i]} ELSE lr_wts
    /\ lr_i' = lr_i + 1
    /\ UNCHANGED <<nonLockRaceVars, lr_cmd, lr_lockname, lr_locks, lr_disk, lr_pc, lr_lpc,
                   lr_cands, lr_result>>

\* gc 603: Ok(())
GcPruneOver ==
    /\ lr_pc = "prune"
    /\ lr_i > Len(lr_cands)
    /\ LrEnd(0, "")
    /\ UNCHANGED <<nonLockRaceVars, lr_cmd, lr_lockname, lr_wts, lr_locks, lr_disk, lr_lpc,
                   lr_i, lr_cands>>

NextLockRace ==
    \/ LrLock
    \/ DelCheckLock
    \/ DelFind
    \/ DelStatus
    \/ DelRemove
    \/ DelMeta
    \/ GcList
    \/ GcScanOne
    \/ GcScanOver
    \/ GcPruneOne
    \/ GcPruneOver

(***************************************************************************)
(* dirty_files and recent_uncommitted (cmd/mod.rs): the short-status       *)
(* lines of one worktree are counted, then listed newest first             *)
(***************************************************************************)
MaxLines == 2

\* the two indicator characters git prints before a path
StatusCodes == {<<"M", " ">>, <<" ", "M">>, <<"A", "M">>, <<"?", "?">>}

Files == {<<"f">>, <<"g">>, <<"h">>}

\* seconds since the epoch of a readable modification time; -1 is a time
\* before the epoch
MTimes == {-1, 0, 1}

\* "XY path"
StatusLine(code, file) == code \o <<" ">> \o file

RECURSIVE StatusOutputs(_)
StatusOutputs(n) ==
    IF n = 0 THEN {<<>>}
    ELSE {Append(q, StatusLine(code, file)) :
            q \in StatusOutputs(n - 1), code \in StatusCodes, file \in Files}

\* git prints one line for a path
DistinctPaths(lines) ==
    \A i, j \in 1..Len(lines) : i # j => SubSeq(lines[i], 4, Len(lines[i])) # SubSeq(lines[j], 4, Len(lines[j]))

\* `chars().nth(i - 1).unwrap_or(d)`
CharOr(line, i, d) == IF Len(line) >= i THEN line[i] ELSE d

\* `starts_with`
StartsWith(line, prefix) ==
    Len(line) >= Len(prefix) /\ SubSeq(line, 1, Len(prefix)) = prefix

NoDirt == [total |-> 0, staged |-> 0, unstaged |-> 0, untracked |-> 0]

DirtyLineOnce(acc, line) ==
    IF StartsWith(line, <<"?", "?">>) THEN [acc EXCEPT !.untracked = @ + 1]
    ELSE IF CharOr(line, 1, " ") # " " THEN [acc EXCEPT !.staged = @ + 1]
    ELSE IF CharOr(line, 2, " ") # " " THEN [acc EXCEPT !.unstaged = @ + 1]
    ELSE acc
\* dirty_files 707-717: the loop body
DirtyLine(acc, line) ==
    IF StartsWith(line, <<"?", "?">>) THEN [acc EXCEPT !.untracked = @ + 1]
    ELSE LET s == IF CharOr(line, 1, " ") # " " THEN 1 ELSE 0
             u == IF CharOr(line, 2, " ") # " " THEN 1 ELSE 0
         IN  [acc EXCEPT !.staged = @ + s, !.unstaged = @ + u]

RECURSIVE DirtyLoop(_, _, _)
DirtyLoop(lines, i, acc) ==
    IF i > Len(lines) THEN acc ELSE DirtyLoop(lines, i + 1, DirtyLine(acc, lines[i]))

\* dirty_files 703-724 when git succeeded
dirty_files(lines) ==
    LET c == DirtyLoop(lines, 1, NoDirt)
    IN  [c EXCEPT !.total = c.staged + c.unstaged + c.untracked]

\* `trim_end` and `trim` on the characters of the model
RECURSIVE TrimEnd(_)
TrimEnd(w) == IF w # <<>> /\ w[Len(w)] = " " THEN TrimEnd(SubSeq(w, 1, Len(w) - 1)) ELSE w

RECURSIVE TrimStart(_)
TrimStart(w) == IF w # <<>> /\ w[1] = " " THEN TrimStart(Tail(w)) ELSE w

Trim(w) == TrimEnd(TrimStart(w))

\* recent_uncommitted 890-896
StatusChar(status) ==
    IF status = <<"?", "?">> THEN "?"
    ELSE IF CharOr(status, 1, " ") # " " THEN CharOr(status, 1, "?")
    ELSE CharOr(status, 2, "?")

\* file_mtime 906-921: zero for a path whose metadata or time cannot be
\* read and for a time before the epoch
file_mtime(mtime, file) ==
    IF file \notin DOMAIN mtime THEN 0
    ELSE IF ~IsSome(mtime[file]) THEN 0
    ELSE IF Unwrap(mtime[file]) < 0 THEN 0
    ELSE Unwrap(mtime[file])

\* recent_uncommitted 880-898: the entries pushed, in the order of the lines
RECURSIVE RecentEntries(_, _, _)
RecentEntries(lines, i, mtime) ==
    IF i > Len(lines) THEN <<>>
    ELSE LET line == TrimEnd(lines[i])
             file == Trim(SubSeq(line, 4, Len(line)))
         IN  (IF Len(line) < 3 \/ file = <<>> THEN <<>>
              ELSE <<[file |-> file, status |-> StatusChar(SubSeq(line, 1, 2)),
                      time |-> file_mtime(mtime, file)]>>)
             \o RecentEntries(lines, i + 1, mtime)

InsertOldestFirst(sorted, e) ==
    LET k == Cardinality({i \in 1..Len(sorted) : sorted[i].time <= e.time})
    IN  SubSeq(sorted, 1, k) \o <<e>> \o SubSeq(sorted, k + 1, Len(sorted))
\* one step of the stable sort by `b.2.cmp(&a.2)`: e goes behind every
\* entry that is not older than it
InsertNewestFirst(sorted, e) ==
    LET k == Cardinality({i \in 1..Len(sorted) : sorted[i].time >= e.time})
    IN  SubSeq(sorted, 1, k) \o <<e>> \o SubSeq(sorted, k + 1, Len(sorted))

\* recent_uncommitted 899: `results.sort_by(|a, b| b.2.cmp(&a.2))`
RECURSIVE SortByTime(_, _, _)
SortByTime(entries, i, sorted) ==
    IF i > Len(entries) THEN sorted
    ELSE SortByTime(entries, i + 1, InsertNewestFirst(sorted, entries[i]))

\* `truncate`
Truncate(w, n) == SubSeq(w, 1, IF n < Len(w) THEN n ELSE Len(w))

\* recent_uncommitted 876-903 when git succeeded
recent_uncommitted(lines, mtime, max) ==
    Truncate(SortByTime(RecentEntries(lines, 1, mtime), 1, <<>>), max)

StatusIdle ==
    /\ st_lines = <<>>
    /\ st_mtime = [file \in Files |-> None]
    /\ st_max = 0
    /\ st_pc = "idle"
    /\ st_dirty = NoDirt
    /\ st_recent = <<>>

InitStatus ==
    /\ st_lines \in {lines \in UNION {StatusOutputs(n) : n \in 0..MaxLines} : DistinctPaths(lines)}
    /\ st_mtime \in [Files -> {None} \cup {Some(t) : t \in MTimes}]
    /\ st_max \in 0..MaxLines
    /\ st_pc = "start"
    /\ st_dirty = NoDirt
    /\ st_recent = <<>>

\* list 165 / status 202: `dirty_files(&ctx.git, &wt.path).map_err(git_error)?`
DirtyFiles ==
    /\ st_pc = "start"
    /\ \E git_ok \in BOOLEAN :
         IF git_ok
         THEN st_dirty' = dirty_files(st_lines) /\ st_pc' = "counted"
         ELSE st_dirty' = st_dirty /\ st_pc' = "failed"
    /\ UNCHANGED <<nonStatusVars, st_lines, st_mtime, st_max, st_recent>>

\* list 168 / status 211: `recent_uncommitted(&ctx.git, &wt.path, args.recent)`
RecentUncommitted ==
    /\ st_pc = "counted"
    /\ \E git_ok \in BOOLEAN :
         st_recent' = IF git_ok THEN recent_uncommitted(st_lines, st_mtime, st_max) ELSE <<>>
    /\ st_pc' = "listed"
    /\ UNCHANGED <<nonStatusVars, st_lines, st_mtime, st_max, st_dirty>>

NextStatus ==
    \/ DirtyFiles
    \/ RecentUncommitted

(***************************************************************************)
(* Git::worktrees (git.rs): the porcelain listing is parsed line by line.  *)
(* A line is the sequence of its words, which single spaces separate.      *)
(***************************************************************************)
MaxListing == 4

ListingLines ==
    {<<"worktree", "/p">>, <<"worktree", "/q">>, <<"branch", "m">>, <<"branch", "n">>,
     <<"HEAD", "h">>, <<"detached">>, <<>>}

RECURSIVE Listings(_)
Listings(n) ==
    IF n = 0 THEN {<<>>} ELSE {Append(q, line) : q \in Listings(n - 1), line \in ListingLines}

\* `line.starts_with("<key> ")`
HasKey(line, key) == Len(line) >= 2 /\ line[1] = key

\* `line.trim_start_matches("<key> ")`: every leading repetition goes
RECURSIVE TrimKey(_, _)
TrimKey(line, key) == IF HasKey(line, key) THEN TrimKey(Tail(line), key) ELSE line

\* worktrees 73-78
NewWorktree(path) == [path |-> path, branch |-> None, head |-> None]

SetBranchOrOpen(current, value) ==
    IF IsSome(current) THEN Some([Unwrap(current) EXCEPT !.branch = Some(value)])
    ELSE Some([NewWorktree(<<>>) EXCEPT !.branch = Some(value)])
\* worktrees 80-83: a branch line outside a block changes nothing
SetBranch(current, value) ==
    IF IsSome(current) THEN Some([Unwrap(current) EXCEPT !.branch = Some(value)]) ELSE current

\* worktrees 85-87
SetHead(current, value) ==
    IF IsSome(current) THEN Some([Unwrap(current) EXCEPT !.head = Some(value)]) ELSE current

\* `if let Some(wt) = current { result.push(wt) }`
PushCurrent(result, current) ==
    IF IsSome(current) THEN Append(result, Unwrap(current)) ELSE result

ListingIdle ==
    /\ wl_lines = <<>>
    /\ wl_pc = "idle"
    /\ wl_i = 1
    /\ wl_current = None
    /\ wl_result = <<>>

InitListing ==
    /\ wl_lines \in UNION {Listings(n) : n \in 0..MaxListing}
    /\ wl_pc = "run"
    /\ wl_i = 1
    /\ wl_current = None
    /\ wl_result = <<>>

\* worktrees 65: `self.run(&["worktree", "list", "--porcelain"])?`
WorktreesRun ==
    /\ wl_pc = "run"
    /\ \E git_ok \in BOOLEAN : wl_pc' = IF git_ok THEN "parse" ELSE "failed"
    /\ UNCHANGED <<nonListingVars, wl_lines, wl_i, wl_current, wl_result>>

\* worktrees 68-89: one iteration
WorktreesLine ==
    /\ wl_pc = "parse"
    /\ wl_i <= Len(wl_lines)
    /\ LET line == wl_lines[wl_i]
       IN  IF HasKey(line, "worktree")
           THEN /\ wl_result' = PushCurrent(wl_result, wl_current)
                /\ wl_current' = Some(NewWorktree(TrimKey(line, "worktree")))
           ELSE IF HasKey(line, "branch")
           THEN /\ wl_current' = SetBranch(wl_current, TrimKey(line, "branch"))
                /\ wl_result' = wl_result
           ELSE IF HasKey(line, "HEAD")
           THEN /\ wl_current' = SetHead(wl_current, TrimKey(line, "HEAD"))
                /\ wl_result' = wl_result
           ELSE UNCHANGED <<wl_current, wl_result>>
    /\ wl_i' = wl_i + 1
    /\ UNCHANGED <<nonListingVars, wl_lines, wl_pc>>

\* worktrees 90-93
WorktreesEnd ==
    /\ wl_pc = "parse"
    /\ wl_i > Len(wl_lines)
    /\ wl_result' = PushCurrent(wl_result, wl_current)
    /\ wl_pc' = "done"
    /\ UNCHANGED <<nonListingVars, wl_lines, wl_i, wl_current>>

NextListing ==
    \/ WorktreesRun
    \/ WorktreesLine
    \/ WorktreesEnd

(***************************************************************************)
(* add without --path, then worktree_display_name on the listed path       *)
(* (cmd/mod.rs).  Paths are absolute and free of symbolic links, "." and   *)
(* "..", so canonicalize is the normal form of an existing path.           *)
(***************************************************************************)
\* ctx.repo_root, canonical (list 132-134)
RepoRoot == <<"/", "r">>

\* values of Config::worktrees_dir: relative to the root, or absolute
WorktreesDirCfgs == {<<"w">>, <<"/", "w">>, <<>>}

RECURSIVE JoinParts(_)
JoinParts(parts) ==
    IF parts = <<>> THEN <<>>
    ELSE IF Len(parts) = 1 THEN parts[1]
    ELSE parts[1] \o <<"/">> \o JoinParts(Tail(parts))

\* the path spelled from its components
Normal(p) == (IF IsAbsolute(p) THEN <<"/">> ELSE <<>>) \o JoinParts(Components(p).parts)

\* Path::canonicalize().unwrap_or(p)
CanonicalizeOr(p, exists) == IF exists THEN Normal(p) ELSE p

\* Path::starts_with
HasPrefixPath(p, base) ==
    /\ Components(p).root = Components(base).root
    /\ Len(Components(base).parts) <= Len(Components(p).parts)
    /\ SubSeq(Components(p).parts, 1, Len(Components(base).parts)) = Components(base).parts

\* Path::strip_prefix(base).ok(), as a string
StripPrefix(p, base) ==
    IF HasPrefixPath(p, base)
    THEN Some(JoinParts(SubSeq(Components(p).parts, Len(Components(base).parts) + 1,
                               Len(Components(p).parts))))
    ELSE None

\* `ctx.repo_root.join(ctx.config.worktrees_dir())`
WorktreesDir(wdcfg) == PathJoin(RepoRoot, wdcfg)

\* worktree_name_with_config 741-747
worktree_name_with_config(wdcfg, wd_exists, path, exists) ==
    StripPrefix(CanonicalizeOr(path, exists), CanonicalizeOr(WorktreesDir(wdcfg), wd_exists))

RootName == <<"r", "o", "o", "t">>

\* worktree_display_name 749-756
worktree_display_name(wdcfg, wd_exists, path, exists, root) ==
    IF exists /\ PathEq(Normal(path), root) THEN RootName
    ELSE OptUnwrapOr(worktree_name_with_config(wdcfg, wd_exists, path, exists), path)

\* `path.exists()`: the directories between "/" and the root, and those up
\* to the worktrees directory once it is made
PathExists(p, wdcfg, wd_exists) ==
    \/ HasPrefixPath(RepoRoot, p)
    \/ wd_exists /\ HasPrefixPath(WorktreesDir(wdcfg), p)

\* paths of worktrees git lists that this add did not make
ListedPaths(wdcfg) ==
    {RepoRoot, WorktreesDir(wdcfg), PathJoin(WorktreesDir(wdcfg), <<"a">>),
     PathJoin(WorktreesDir(wdcfg), <<"a", "/", "a">>), <<"/", "x">>, <<"/", "r", "/", "x">>}

NamingIdle ==
    /\ nm_wdcfg = <<>>
    /\ nm_wd_exists = FALSE
    /\ nm_name = None
    /\ nm_path = <<>>
    /\ nm_exists = FALSE
    /\ nm_pc = "idle"
    /\ nm_display = None

InitNaming ==
    /\ nm_wdcfg \in WorktreesDirCfgs
    /\ nm_wd_exists \in {e \in BOOLEAN : PathEq(WorktreesDir(nm_wdcfg), RepoRoot) => e}
    /\ nm_name = None
    /\ nm_path = <<>>
    /\ nm_exists = FALSE
    /\ nm_pc = "start"
    /\ nm_display = None

\* add 16-52 without --path: the worktree is made at worktrees_dir.join(name)
\* and git lists it under its normal absolute path
AddNamed ==
    /\ nm_pc = "start"
    /\ \E name \in Strs, git_ok \in BOOLEAN :
         LET path == PathJoin(WorktreesDir(nm_wdcfg), name)
         IN  IF PathExists(path, nm_wdcfg, nm_wd_exists) \/ ~git_ok
             THEN /\ nm_pc' = "failed"
                  /\ UNCHANGED <<nm_name, nm_path, nm_exists, nm_wd_exists>>
             ELSE /\ nm_pc' = "listed"
                  /\ nm_name' = Some(name)
                  /\ nm_path' = Normal(path)
                  /\ nm_exists' = TRUE
                  /\ nm_wd_exists' = (nm_wd_exists \/ HasPrefixPath(path, WorktreesDir(nm_wdcfg)))
    /\ UNCHANGED <<nonNamingVars, nm_wdcfg, nm_display>>

\* list 130-136: a worktree of the listing; its directory may be gone
ListOther ==
    /\ nm_pc = "start"
    /\ \E path \in ListedPaths(nm_wdcfg), exists \in BOOLEAN :
         /\ (exists /\ HasPrefixPath(path, WorktreesDir(nm_wdcfg))) => nm_wd_exists
         /\ PathEq(path, RepoRoot) => exists
         /\ nm_path' = path
         /\ nm_exists' = exists
    /\ nm_pc' = "listed"
    /\ UNCHANGED <<nonNamingVars, nm_wdcfg, nm_wd_exists, nm_name, nm_display>>

\* list 137: `worktree_display_name(ctx, &wt.path, &root)`
DisplayName ==
    /\ nm_pc = "listed"
    /\ nm_display' = Some(worktree_display_name(nm_wdcfg, nm_wd_exists, nm_path, nm_exists, RepoRoot))
    /\ nm_pc' = "named"
    /\ UNCHANGED <<nonNamingVars, nm_wdcfg, nm_wd_exists, nm_name, nm_path, nm_exists>>

NextNaming ==
    \/ AddNamed
    \/ ListOther
    \/ DisplayName

(***************************************************************************)
(* The project file .gw/config.toml read twice (config.rs): by             *)
(* Config::load into the typed Config, and by Config::validate as an       *)
(* untyped TOML value.  The global file is absent.                         *)
(***************************************************************************)
MaxEntries == 2

\* the characters of the key names that occur
Spell ==
    [base |-> <<"b", "a", "s", "e">>,
     worktrees_dir |-> <<"w", "o", "r", "k", "t", "r", "e", "e", "s", "_", "d", "i", "r">>,
     branch_prefix |-> <<"b", "r", "a", "n", "c", "h", "_", "p", "r", "e", "f", "i", "x">>,
     subdir |-> <<"s", "u", "b", "d", "i", "r">>,
     stale_days |-> <<"s", "t", "a", "l", "e", "_", "d", "a", "y", "s">>,
     rust |-> <<"r", "u", "s", "t">>,
     node |-> <<"n", "o", "d", "e">>,
     python |-> <<"p", "y", "t", "h", "o", "n">>,
     subdirs |-> <<"s", "u", "b", "d", "i", "r", "s">>,
     color |-> <<"c", "o", "l", "o", "r">>,
     nost |-> <<"n", "o", "s", "t">>]

KnownSections == {"defaults", "gc", "verify"}

\* validate 120-131: `known_keys`, as <<section, key>>
KnownKeys ==
    {<<"defaults", k>> : k \in DefaultsKeys} \cup {<<"gc", k>> : k \in GcKeys}
    \cup {<<"verify", k>> : k \in VerifyKeys}

\* validate 133-136: `all_key_names`
AllKeyNames == {k[2] : k \in KnownKeys}

\* toml::Value of an entry
IntValue(n) == [type |-> "integer", int |-> n, str |-> <<>>]

StrValue(w) == [type |-> "string", int |-> 0, str |-> w]

\* the key of an entry that gives a section name a value that is no table
TopLevel == ""

Entry(section, key, value) == [section |-> section, key |-> key, value |-> value]

\* the `section.key = value` lines a file is made of
ContentEntries ==
    {Entry("defaults", "subdir", v) : v \in {StrValue(<<"a">>), StrValue(<<"/", "a">>), IntValue(3)}}
    \cup {Entry("gc", "stale_days", v) : v \in {IntValue(-1), IntValue(0), IntValue(7), StrValue(<<"a">>)}}
    \cup {Entry("defaults", "subdirs", StrValue(<<"a">>)), Entry("gc", "rust", StrValue(<<"a">>)),
          Entry("gc", "color", StrValue(<<"a">>)), Entry("gc", "nost", StrValue(<<"a">>)),
          Entry("verify", "node", StrValue(<<"a">>)), Entry("gc", TopLevel, IntValue(3)),
          Entry("extra", "subdir", StrValue(<<"/", "a">>)), Entry("extra", TopLevel, IntValue(3))}

\* a TOML document gives a key one value, and a name a table or a value
WellFormed(entries) ==
    \A e, f \in entries :
        /\ (e.section = f.section /\ e.key = f.key) => e = f
        /\ (e.section = f.section /\ e.key = TopLevel) => e = f

ProjectFiles ==
    {[exists |-> FALSE, syntax_ok |-> TRUE, entries |-> {}],
     [exists |-> TRUE, syntax_ok |-> FALSE, entries |-> {}]}
    \cup {[exists |-> TRUE, syntax_ok |-> TRUE, entries |-> c] :
            c \in {x \in SUBSET ContentEntries : Cardinality(x) <= MaxEntries /\ WellFormed(x)}}

\* the type of a field of Defaults, GcConfig and VerifyConfig (16-35)
FieldType(key) == IF key = "stale_days" THEN "integer" ELSE "string"

\* `toml::from_str::<Config>`: the derived Deserialize skips unknown
\* sections and keys; a known section must be a table and a known key must
\* hold a value of the type of its field
Deserializes(entries) ==
    \A e \in entries :
        e.section \in KnownSections =>
            /\ e.key # TopLevel
            /\ <<e.section, e.key>> \in KnownKeys => e.value.type = FieldType(e.key)

\* Config::load 49-56 on the project file
LoadProject(file) ==
    IF ~file.exists THEN [ok |-> TRUE, set |-> {}]
    ELSE IF ~file.syntax_ok \/ ~Deserializes(file.entries) THEN [ok |-> FALSE, set |-> {}]
    ELSE [ok |-> TRUE, set |-> {e \in file.entries : <<e.section, e.key>> \in KnownKeys}]

Min3(a, b, c) == IF a <= b /\ a <= c THEN a ELSE IF b <= c THEN b ELSE c

\* strsim::levenshtein: one row of the distance table from the row before;
\* a row holds the columns 0..Len(b) at the indices 1..Len(b) + 1
RECURSIVE LevRow(_, _, _, _)
LevRow(prev, ch, b, cur) ==
    IF Len(cur) > Len(b) THEN cur
    ELSE LET j == Len(cur)
         IN  LevRow(prev, ch, b,
                    Append(cur, Min3(prev[j + 1] + 1, cur[j] + 1,
                                     prev[j] + (IF ch = b[j] THEN 0 ELSE 1))))

RECURSIVE LevRows(_, _, _, _)
LevRows(a, b, i, prev) ==
    IF i > Len(a) THEN prev[Len(b) + 1]
    ELSE LevRows(a, b, i + 1, LevRow(prev, a[i], b, <<i>>))

levenshtein(a, b) == LevRows(a, b, 1, [j \in 1..(Len(b) + 1) |-> j - 1])

\* suggest_key 235-242: a nearest candidate within distance 2; the
\* candidates come out of a HashSet, so any of the nearest can be first
suggest_key(input, candidates) ==
    LET near == {c \in candidates : levenshtein(Spell[input], Spell[c]) <= 2}
        best == {c \in near : \A d \in near :
                    levenshtein(Spell[input], Spell[c]) <= levenshtein(Spell[input], Spell[d])}
    IN  IF best = {} THEN {None} ELSE {Some(c) : c \in best}

Warning(kind, section, key, suggest) ==
    [kind |-> kind, section |-> section, key |-> key, suggest |-> suggest]

\* toml::Table iterates in the order of the names
SectionOrder == <<"defaults", "extra", "gc", "verify">>

KeyOrder == <<"color", "node", "nost", "rust", "stale_days", "subdir", "subdirs">>

\* validate 162-181: the warnings for the keys of a known section, from the
\* i-th key name on
RECURSIVE KeyWarnings(_, _, _)
KeyWarnings(entries, section, i) ==
    IF i > Len(KeyOrder) THEN {<<>>}
    ELSE LET key == KeyOrder[i]
             here == IF (\E e \in entries : e.section = section /\ e.key = key)
                        /\ <<section, key>> \notin KnownKeys
                     THEN {<<Warning("unknown key", section, key, sg)>> :
                             sg \in suggest_key(key, AllKeyNames)}
                     ELSE {<<>>}
         IN  {h \o rest : h \in here, rest \in KeyWarnings(entries, section, i + 1)}

\* validate 153-182: the loop over the top-level table
RECURSIVE SectionWarnings(_, _)
SectionWarnings(entries, j) ==
    IF j > Len(SectionOrder) THEN {<<>>}
    ELSE LET section == SectionOrder[j]
             here == IF ~\E e \in entries : e.section = section THEN {<<>>}
                     ELSE IF section \notin KnownSections
                     THEN {<<Warning("unknown section", section, TopLevel, None)>>}
                     ELSE KeyWarnings(entries, section, 1)
         IN  {h \o rest : h \in here, rest \in SectionWarnings(entries, j + 1)}

StaleDaysOutOfRangeBelowZero(days) == days < 0
\* validate 187: `days <= 0`
StaleDaysOutOfRange(days) == days <= 0

\* validate 184-204: value validation
ValueWarnings(entries) ==
    (IF \E e \in entries : /\ e.section = "gc" /\ e.key = "stale_days"
                           /\ e.value.type = "integer" /\ StaleDaysOutOfRange(e.value.int)
     THEN <<Warning("stale_days should be positive", "gc", "stale_days", None)>> ELSE <<>>)
    \o
    (IF \E e \in entries : /\ e.section = "defaults" /\ e.key = "subdir"
                           /\ e.value.type = "string" /\ IsAbsolute(e.value.str)
     THEN <<Warning("subdir should not start with '/'", "defaults", "subdir", None)>> ELSE <<>>)

\* Config::validate 115-207: the vectors it can return
validate(file) ==
    IF ~file.exists THEN {<<>>}
    ELSE IF ~file.syntax_ok THEN {<<Warning("parse error", TopLevel, TopLevel, None)>>}
    ELSE {w \o ValueWarnings(file.entries) : w \in SectionWarnings(file.entries, 1)}

ValidIdle ==
    /\ vd_file = [exists |-> FALSE, syntax_ok |-> TRUE, entries |-> {}]
    /\ vd_loaded = None
    /\ vd_warnings = None

InitValid ==
    /\ vd_file \in ProjectFiles
    /\ vd_loaded = None
    /\ vd_warnings = None

\* main 61: `Config::load(&repo_root)`, an error ends the process with code 1
LoadConfig ==
    /\ vd_loaded = None
    /\ vd_loaded' = Some(LoadProject(vd_file))
    /\ UNCHANGED <<nonValidVars, vd_file, vd_warnings>>

\* config 499 and the tests 272-384: `Config::validate(&ctx.repo_root)`
ValidateConfig ==
    /\ vd_warnings = None
    /\ vd_warnings' \in {Some(w) : w \in validate(vd_file)}
    /\ UNCHANGED <<nonValidVars, vd_file, vd_loaded>>

NextValid ==
    \/ LoadConfig
    \/ ValidateConfig

(***************************************************************************)
(* Specifications: one command runs, the rest of the state is idle         *)
(***************************************************************************)
\* exec_cmd is entered, nothing else runs
InitSpecExec == InitExec /\ SubdirIdle /\ GcIdle /\ MetaIdle /\ RepoIdle /\ RaceIdle /\ ConfIdle /\ NamesIdle /\ LockRaceIdle /\ StatusIdle /\ ListingIdle /\ NamingIdle /\ ValidIdle

SpecExec == InitSpecExec /\ [][NextExec]_vars

\* resolve_worktree_dir is entered, nothing else runs
InitSpecSubdir == InitSubdir /\ ExecIdle /\ GcIdle /\ MetaIdle /\ RepoIdle /\ RaceIdle /\ ConfIdle /\ NamesIdle /\ LockRaceIdle /\ StatusIdle /\ ListingIdle /\ NamingIdle /\ ValidIdle

SpecSubdir == InitSpecSubdir /\ [][NextSubdir]_vars

\* gc is entered, nothing else runs
InitSpecGc == InitGc /\ ExecIdle /\ SubdirIdle /\ MetaIdle /\ RepoIdle /\ RaceIdle /\ ConfIdle /\ NamesIdle /\ LockRaceIdle /\ StatusIdle /\ ListingIdle /\ NamingIdle /\ ValidIdle

SpecGc == InitSpecGc /\ [][NextGc]_vars

\* a MetaStore is loaded and its methods are called, nothing else runs
InitSpecMeta == InitMeta /\ ExecIdle /\ SubdirIdle /\ GcIdle /\ RepoIdle /\ RaceIdle /\ ConfIdle /\ NamesIdle /\ LockRaceIdle /\ StatusIdle /\ ListingIdle /\ NamingIdle /\ ValidIdle

SpecMeta == InitSpecMeta /\ [][NextMeta]_vars

\* add, del, lock, unlock, gc and apply run one after another on one repository
InitSpecRepo == InitRepo /\ ExecIdle /\ SubdirIdle /\ GcIdle /\ MetaIdle /\ RaceIdle /\ ConfIdle /\ NamesIdle /\ LockRaceIdle /\ StatusIdle /\ ListingIdle /\ NamingIdle /\ ValidIdle

SpecRepo == InitSpecRepo /\ [][NextRepo]_vars

\* sync, apply, verify, exec and gc run one after another on one repository
InitSpecBatch == InitRepo /\ ExecIdle /\ SubdirIdle /\ GcIdle /\ MetaIdle /\ RaceIdle /\ ConfIdle /\ NamesIdle /\ LockRaceIdle /\ StatusIdle /\ ListingIdle /\ NamingIdle /\ ValidIdle

SpecBatch == InitSpecBatch /\ [][NextBatch]_vars

\* note and subdir run one after another on one repository
InitSpecAnnotate == InitRepo /\ ExecIdle /\ SubdirIdle /\ GcIdle /\ MetaIdle /\ RaceIdle /\ ConfIdle /\ NamesIdle /\ LockRaceIdle /\ StatusIdle /\ ListingIdle /\ NamingIdle /\ ValidIdle

SpecAnnotate == InitSpecAnnotate /\ [][NextAnnotate]_vars

\* two note processes run at once on one repository
InitSpecRace == InitRace /\ ExecIdle /\ SubdirIdle /\ GcIdle /\ MetaIdle /\ RepoIdle /\ ConfIdle /\ NamesIdle /\ LockRaceIdle /\ StatusIdle /\ ListingIdle /\ NamingIdle /\ ValidIdle

SpecRace == InitSpecRace /\ [][NextRace]_vars

\* a process loads the configuration and reads its settings
InitSpecConf == InitConf /\ ExecIdle /\ SubdirIdle /\ GcIdle /\ MetaIdle /\ RepoIdle /\ RaceIdle /\ NamesIdle /\ LockRaceIdle /\ StatusIdle /\ ListingIdle /\ NamingIdle /\ ValidIdle

SpecConf == InitSpecConf /\ [][NextConf]_vars

\* exec_cmd resolves the names it was given, then runs the command
InitSpecNames == InitNames /\ ExecIdle /\ SubdirIdle /\ GcIdle /\ MetaIdle /\ RepoIdle /\ RaceIdle /\ ConfIdle /\ LockRaceIdle /\ StatusIdle /\ ListingIdle /\ NamingIdle /\ ValidIdle

SpecNames == InitSpecNames /\ [][NextNames]_vars

InitSpecLockRace == InitLockRace /\ ExecIdle /\ SubdirIdle /\ GcIdle /\ MetaIdle /\ RepoIdle /\ RaceIdle /\ ConfIdle /\ NamesIdle /\ StatusIdle /\ ListingIdle /\ NamingIdle /\ ValidIdle
SpecLockRace == InitSpecLockRace /\ [][NextLockRace]_vars

InitSpecStatus == InitStatus /\ ExecIdle /\ SubdirIdle /\ GcIdle /\ MetaIdle /\ RepoIdle /\ RaceIdle /\ ConfIdle /\ NamesIdle /\ LockRaceIdle /\ ListingIdle /\ NamingIdle /\ ValidIdle
SpecStatus == InitSpecStatus /\ [][NextStatus]_vars

InitSpecListing == InitListing /\ ExecIdle /\ SubdirIdle /\ GcIdle /\ MetaIdle /\ RepoIdle /\ RaceIdle /\ ConfIdle /\ NamesIdle /\ LockRaceIdle /\ StatusIdle /\ NamingIdle /\ ValidIdle
SpecListing == InitSpecListing /\ [][NextListing]_vars

InitSpecNaming == InitNaming /\ ExecIdle /\ SubdirIdle /\ GcIdle /\ MetaIdle /\ RepoIdle /\ RaceIdle /\ ConfIdle /\ NamesIdle /\ LockRaceIdle /\ StatusIdle /\ ListingIdle /\ ValidIdle
SpecNaming == InitSpecNaming /\ [][NextNaming]_vars

InitSpecValid == InitValid /\ ExecIdle /\ SubdirIdle /\ GcIdle /\ MetaIdle /\ RepoIdle /\ RaceIdle /\ ConfIdle /\ NamesIdle /\ LockRaceIdle /\ StatusIdle /\ ListingIdle /\ NamingIdle
SpecValid == InitSpecValid /\ [][NextValid]_vars

(***************************************************************************)
(* Properties of exec_cmd                                                  *)
(***************************************************************************)
Range(seq) == {seq[k] : k \in 1..Len(seq)}

ExecTargets == 1..ex_n

\* The target's subprocess exited non-zero or could not be launched.
TargetFailed(t) == ex_outcome[t] \in {"nonzero", "launch_err"}

AnyTargetFailed == \E t \in ExecTargets : TargetFailed(t)

\* Targets whose subprocess is running right now.
InFlight == {t \in ExecTargets : ex_st[t] = "running"}

\* The commands were started in target order, without gaps.
StartedInTargetOrder == ex_order = [k \in 1..Len(ex_order) |-> k]

\* C1: in sequential mode without fail-fast, once exec_cmd has returned every
\* target was run exactly once, in target order, and the result is Err when
\* at least one target failed (as it is in parallel mode).
ExecSeqBestEffortReportsFailure ==
    (ex_pc = "done" /\ ~ex_args.parallel /\ ~ex_args.fail_fast) =>
        /\ \A t \in ExecTargets : ex_started[t] = 1
        /\ StartedInTargetOrder
        /\ Len(ex_order) = ex_n
        /\ (AnyTargetFailed => ex_result = "Err")

\* C2: with fail-fast, targets run in order, one at a time, up to and
\* including the first failing one; the failure ends exec_cmd with Err at
\* once and no later target is ever started; with no failure all targets
\* are run and the result is Ok.
ExecFailFastStopsAtFirstFailure ==
    ex_args.fail_fast =>
        /\ \A t \in ExecTargets : ex_started[t] <= 1
        /\ StartedInTargetOrder
        /\ \A t \in ExecTargets :
             TargetFailed(t) =>
                 /\ ex_pc = "done"
                 /\ ex_result = "Err"
                 /\ Len(ex_order) = t
                 /\ \A u \in ExecTargets : u > t => ex_started[u] = 0
        /\ (ex_pc = "done" /\ ~AnyTargetFailed) =>
                 /\ ex_result = "Ok"
                 /\ \A t \in ExecTargets : ex_started[t] = 1

\* C2 witness: fail-fast stopped at a failing target that is not the last.
ExecFailFastStopped ==
    /\ ex_args.fail_fast
    /\ ex_pc = "done"
    /\ ex_result = "Err"
    /\ \E t \in ExecTargets : TargetFailed(t) /\ t < ex_n /\ ex_started[t + 1] = 0

\* C3: in parallel mode no target is started twice; exec_cmd has a result
\* only when every target was started once, has exited and was joined; and
\* that result is Err exactly when at least one target failed.
ExecParallelJoinsAllThenReports ==
    ex_parallel =>
        /\ \A t \in ExecTargets : ex_started[t] <= 1
        /\ ex_result # "none" =>
             /\ \A t \in ExecTargets :
                  ex_started[t] = 1 /\ ex_st[t] = "handled" /\ ex_outcome[t] # "none"
             /\ (ex_result = "Err" <=> AnyTargetFailed)

\* C3 witness: a parallel run returned with a failed first target and a
\* successful later one, the commands not having started in target order.
ExecParallelMixedDone ==
    /\ ex_parallel
    /\ ex_pc = "done"
    /\ ex_n >= 2
    /\ TargetFailed(1)
    /\ \E t \in ExecTargets : ex_outcome[t] = "zero"
    /\ ex_order[1] # 1

\* C4: the concurrent branch is taken exactly when parallel was requested
\* and fail-fast was not, and two commands are never in flight together
\* when fail-fast is set (nor when parallel was not requested).
ExecFailFastNeverConcurrent ==
    /\ ex_pc \in {"spawn", "join"} => (ex_args.parallel /\ ~ex_args.fail_fast)
    /\ ex_pc = "seq" => ~(ex_args.parallel /\ ~ex_args.fail_fast)
    /\ Cardinality(InFlight) >= 2 => (ex_args.parallel /\ ~ex_args.fail_fast)
    /\ ex_args.fail_fast => Cardinality(InFlight) <= 1

\* C4 witness: both flags given, the second target runs after the first
\* one was handled.
ExecBothFlagsSequential ==
    /\ ex_args.parallel
    /\ ex_args.fail_fast
    /\ ex_n >= 2
    /\ ex_st[1] = "handled"
    /\ ex_st[2] = "running"

\* What a failed target does to exec_cmd, whatever the kind of failure.
FailureEffect(t) ==
    /\ ex_ret[t] = FALSE
    /\ ex_started[t] = 1
    /\ ex_st[t] = "handled" =>
         Cardinality({k \in 1..Len(ex_reported) : ex_reported[k] = t}) = 1
    /\ (~ex_parallel /\ ex_args.fail_fast) =>
         /\ ex_pc = "done"
         /\ ex_result = "Err"
         /\ \A u \in ExecTargets : u > t => ex_started[u] = 0
    /\ (ex_parallel /\ ex_pc = "done") => ex_result = "Err"

\* C5: a target whose subprocess could not be launched has the effect of a
\* target that exited non-zero: ok is false, its name is reported once, it
\* was started once (no retry), and under fail-fast it aborts the run.
ExecLaunchErrorIsFailure ==
    \A t \in ExecTargets :
        /\ ex_outcome[t] = "launch_err" => FailureEffect(t)
        /\ ex_outcome[t] = "nonzero" => FailureEffect(t)

\* C5 witness: a launch error was handled in a run that also saw a
\* non-zero exit.
ExecLaunchErrorHandled ==
    \E t \in ExecTargets, u \in ExecTargets :
        /\ ex_outcome[t] = "launch_err"
        /\ ex_outcome[u] = "nonzero"
        /\ ex_st[t] = "handled"
        /\ ex_st[u] = "handled"

(***************************************************************************)
(* Properties of resolve_worktree_dir / resolve_subdir                     *)
(***************************************************************************)
\* The sources of a call in precedence order: command-line argument,
\* metadata subdir, GW_SUBDIR, defaults.subdir of the configuration files
\* (the last two are the config default).
SubdirSources(in) ==
    <<in.cli_subdir,
      IF in.meta = None THEN None ELSE in.meta[1].subdir,
      in.env_subdir,
      in.cfg_subdir>>

PresentSources(in) == {k \in 1..4 : SubdirSources(in)[k] # None}

HighestPresent(in) ==
    CHOOSE k \in PresentSources(in) : \A j \in PresentSources(in) : k <= j

\* base with the fragment's components appended below it
Below(base, fragment) ==
    [root |-> Components(base).root,
     parts |-> Components(base).parts \o Components(fragment).parts]

IsPrefixOf(a, b) == Len(a) <= Len(b) /\ \A k \in 1..Len(a) : a[k] = b[k]

\* Path::starts_with
PathStartsWith(p, base) ==
    /\ Components(p).root = Components(base).root
    /\ IsPrefixOf(Components(base).parts, Components(p).parts)

\* C6: with the root flag the result is the worktree root; otherwise it is
\* the worktree root joined with the value of the first present source in
\* the order command line, metadata, config default (environment, then
\* files), and the worktree root when no source is present.
SubdirPrecedence ==
    rs_pc = "ret" =>
        IF rs_in.cli_root \/ PresentSources(rs_in) = {}
        THEN PathEq(rs_out, rs_in.wt_path)
        ELSE Components(rs_out) =
                 Below(rs_in.wt_path, SubdirSources(rs_in)[HighestPresent(rs_in)][1])

\* C6 witness: every source holds a value, the command-line one differs
\* from the metadata one, and the call has returned without the root flag.
SubdirAllSourcesPresent ==
    /\ rs_pc = "ret"
    /\ ~rs_in.cli_root
    /\ PresentSources(rs_in) = 1..4
    /\ rs_in.cli_subdir = Some(<<"a">>)
    /\ SubdirSources(rs_in)[2] = Some(<<"a", "a">>)

\* The input with source k holding no value.
WithoutSource(in, k) ==
    CASE k = 1 -> [in EXCEPT !.cli_subdir = None]
      [] k = 2 -> [in EXCEPT !.meta = Some([subdir |-> None])]
      [] k = 3 -> [in EXCEPT !.env_subdir = None]
      [] k = 4 -> [in EXCEPT !.cfg_subdir = None]

\* C7 as stated: a source holding the empty string gives the directory the
\* same source gives when it holds no value.
SubdirEmptySameAsAbsent ==
    rs_pc = "ret" =>
        \A k \in 1..4 :
            SubdirSources(rs_in)[k] = Some(<<>>) =>
                PathEq(rs_out, resolve_worktree_dir(WithoutSource(rs_in, k)))

\* C7 amended: when the first present source holds the empty string the
\* result is the worktree root itself, no segment is appended and no lower
\* source is consulted; it is the directory obtained with that source
\* absent whenever no lower source holds a non-empty value.
SubdirEmptyResolvesToRoot ==
    (rs_pc = "ret" /\ ~rs_in.cli_root /\ PresentSources(rs_in) # {}) =>
        LET k == HighestPresent(rs_in) IN
        SubdirSources(rs_in)[k] = Some(<<>>) =>
            /\ rs_out = rs_in.wt_path
            /\ (\A j \in (k + 1)..4 : SubdirSources(rs_in)[j] \in {None, Some(<<>>)})
                 => rs_out = resolve_worktree_dir(WithoutSource(rs_in, k))

\* C7 witness: the command-line value is empty while the metadata holds a
\* non-empty subdir, and the call returned the worktree root.
SubdirEmptyHidesLower ==
    /\ rs_pc = "ret"
    /\ ~rs_in.cli_root
    /\ rs_in.cli_subdir = Some(<<>>)
    /\ SubdirSources(rs_in)[2] = Some(<<"a">>)
    /\ rs_out = rs_in.wt_path

\* C8: the resolved directory always has the worktree root as a path
\* prefix; a value with leading separators, from whichever source, lands
\* below the root with its separators stripped.
SubdirStaysUnderRoot ==
    rs_pc = "ret" =>
        /\ PathStartsWith(rs_out, rs_in.wt_path)
        /\ IsPrefixOf(rs_in.wt_path, rs_out)
        /\ (~rs_in.cli_root /\ PresentSources(rs_in) # {}) =>
             LET v == SubdirSources(rs_in)[HighestPresent(rs_in)][1] IN
             IsAbsolute(v) => Components(rs_out) = Below(rs_in.wt_path, v)

\* C8 witness: the environment supplies an absolute-looking value and the
\* call returned a directory strictly below the worktree root.
SubdirAbsoluteFromEnv ==
    /\ rs_pc = "ret"
    /\ ~rs_in.cli_root
    /\ PresentSources(rs_in) = {3, 4}
    /\ rs_in.env_subdir = Some(<<"/", "a">>)
    /\ Components(rs_out).parts = <<<<"w">>, <<"a">>>>

(***************************************************************************)
(* Properties of the gc scan                                               *)
(***************************************************************************)
\* The scan has visited a worktree; gc_iter holds what it read and did.
GcVisited == gc_iter.wt # 0

\* The worktree visited last is in the candidate list.
GcIsCandidate == gc_iter.wt \in Range(gc_candidates)

\* The staleness threshold in days: gc.stale_days, 7 when not configured.
StaleDays == IF gc_cfg = None THEN 7 ELSE gc_cfg[1]

\* The metadata entry has a last_activity_at.
MetaActivityPresent(f) == f.meta # None /\ f.meta[1].last_activity_at # None

\* The metadata entry has a last_activity_at that is a time.
MetaActivityKnown(f) ==
    MetaActivityPresent(f) /\ f.meta[1].last_activity_at[1].rfc3339

\* lastActivity: the metadata last_activity_at, else the last-commit time.
ActivityKnown(f) == MetaActivityKnown(f) \/ f.commit # None

ActivityOf(f) ==
    IF MetaActivityKnown(f) THEN f.meta[1].last_activity_at[1].ts ELSE f.commit[1]

\* The candidacy condition of the staleness policy.
StaleOrMergedClean(f, now) ==
    \/ now - ActivityOf(f) >= StaleDays * 86400
    \/ (f.status = Some(0) /\ f.merged)

\* C9 as stated: an unlocked worktree (whose status and activity time gc
\* could read) is a candidate if and only if it is stale or merged-clean.
GcUnlockedCandidateRule ==
    (GcVisited /\ ~gc_iter.facts.locked /\ gc_iter.facts.status # None
               /\ ActivityKnown(gc_iter.facts)) =>
        (GcIsCandidate <=> StaleOrMergedClean(gc_iter.facts, gc_iter.now))

\* C9 amended: an unlocked worktree that lies under the worktrees root (so
\* that it has a logical name), and whose status and activity time gc could
\* read, is a candidate if and only if it is stale or merged-clean; the
\* staleness boundary is inclusive.
GcNamedUnlockedCandidateRule ==
    (GcVisited /\ gc_iter.facts.named /\ ~gc_iter.facts.locked
               /\ gc_iter.facts.status # None /\ ActivityKnown(gc_iter.facts)) =>
        LET f == gc_iter.facts
            inactivity == gc_iter.now - ActivityOf(f)
        IN  /\ GcIsCandidate <=> StaleOrMergedClean(f, gc_iter.now)
            /\ inactivity = StaleDays * 86400 => GcIsCandidate
            /\ (inactivity = StaleDays * 86400 - 1 /\ ~(f.status = Some(0) /\ f.merged))
                 => ~GcIsCandidate

\* C9 witness: a dirty, unmerged worktree whose inactivity is exactly the
\* threshold was made a candidate.
GcBoundaryCandidate ==
    /\ GcVisited
    /\ gc_iter.facts.named
    /\ ~gc_iter.facts.locked
    /\ gc_iter.facts.status = Some(1)
    /\ ~gc_iter.facts.merged
    /\ ActivityKnown(gc_iter.facts)
    /\ gc_iter.now - ActivityOf(gc_iter.facts) = StaleDays * 86400
    /\ GcIsCandidate

\* C10: for a worktree the scan classifies, lastActivity is the metadata
\* last_activity_at when it is present, otherwise the last-commit time, and
\* a worktree with neither is a candidate whatever the threshold and the
\* current time.
GcNoActivityAlwaysCandidate ==
    (GcVisited /\ gc_iter.verdict \in {"pushed", "kept"}) =>
        LET f == gc_iter.facts IN
        /\ MetaActivityKnown(f) => LastActivity(f) = f.meta[1].last_activity_at[1].ts
        /\ (~MetaActivityPresent(f) /\ f.commit # None) => LastActivity(f) = f.commit[1]
        /\ (~MetaActivityPresent(f) /\ f.commit = None) => GcIsCandidate


(***************************************************************************)
(* Properties of the MetaStore methods                                     *)
(***************************************************************************)
\* the four mutators the record of a name survives
MetaMutators == {"set_created", "add_note", "set_subdir", "set_last_activity"}

\* the record of `name` exists before and after the step
RecordKept(name) == IsSome(ms_data[name]) /\ IsSome(ms_data'[name])

\* a field of the record of `name` that was set keeps its value in the step
FieldKept(name, field) ==
    Unwrap(ms_data[name])[field] # None =>
        Unwrap(ms_data'[name])[field] = Unwrap(ms_data[name])[field]

\* C14: for a record that already exists, a call of set_created, add_note,
\* set_subdir or set_last_activity never changes a creation time or creator
\* that is set, the notes it had remain as a prefix of the notes it has, and
\* add_note makes the notes exactly one element longer, at the end.
MetaCreatedOnceNotesAppendOnly ==
    [][ms_last'.op \in MetaMutators =>
        \A name \in Names : RecordKept(name) =>
            LET old == Unwrap(ms_data[name])
                new == Unwrap(ms_data'[name])
            IN  /\ FieldKept(name, "created_at")
                /\ FieldKept(name, "created_by")
                /\ IsPrefixOf(old.notes, new.notes)
                /\ (ms_last'.op = "add_note" /\ ms_last'.name = name) =>
                       /\ Len(new.notes) = Len(old.notes) + 1
                       /\ SubSeq(new.notes, 1, Len(old.notes)) = old.notes
                       /\ new.notes[Len(new.notes)] \in Texts
                /\ ~(ms_last'.op = "add_note" /\ ms_last'.name = name) =>
                       new.notes = old.notes]_vars

\* C14 witness: set_created was called on a record created before, which
\* holds two notes and still has the creation time it was loaded with
MetaCreatedRecordSetAgain ==
    /\ ms_last = [op |-> "set_created", name |-> "a"]
    /\ IsSome(ms_data["a"])
    /\ Unwrap(ms_data["a"]).created_at = Some(1)
    /\ Unwrap(ms_data["a"]).created_by = Some("u@h")
    /\ Unwrap(ms_data["a"]).notes = <<"x", "y">>


(***************************************************************************)
(* Properties of the commands on one repository                            *)
(***************************************************************************)
\* the worktrees the step removed
RemovedByStep == rp_wts \ rp_wts'

\* C11: a worktree whose lock marker is present is never removed, by del
\* (forced or not), by the del of apply --cleanup or by gc --prune; gc never
\* has it among its candidates; del on it ends with code 1 "worktree is
\* locked" and changes nothing, and del reports a lock only while the marker
\* is there: a successful unlock leaves no marker.
RepoLockGatesDelAndGc ==
    [][/\ RemovedByStep \cap rp_locks = {}
       /\ rp_last'.op = "gc" => rp_last'.cands \cap rp_locks = {}
       /\ (rp_last'.op = "del" /\ rp_last'.name \in rp_locks) =>
              /\ rp_last'.code = 1
              /\ rp_last'.msg = "worktree is locked"
              /\ rp_wts' = rp_wts
              /\ rp_disk' = rp_disk
       /\ (rp_last'.op = "del" /\ rp_last'.msg = "worktree is locked") =>
              rp_last'.name \in rp_locks
       /\ (rp_last'.op = "unlock" /\ rp_last'.code = 0) =>
              rp_last'.name \notin rp_locks']_vars

\* C11 witness: a forced del of a listed, locked worktree has failed with the
\* precondition error and the worktree is still there
RepoForcedDelOfLockedFailed ==
    /\ rp_last.op = "del"
    /\ rp_last.force
    /\ rp_last.code = 1
    /\ rp_last.msg = "worktree is locked"
    /\ rp_last.name \in rp_locks
    /\ rp_last.name \in rp_wts

\* C12: a run of gc writes neither the metadata document nor a lock marker;
\* without --prune it removes no worktree, and with --prune it removes
\* candidates of its scan only.
RepoGcOnlyClassifiesUnlessPrune ==
    [][rp_last'.op = "gc" =>
          /\ rp_disk' = rp_disk
          /\ rp_locks' = rp_locks
          /\ ~rp_last'.prune => rp_wts' = rp_wts
          /\ rp_wts' \subseteq rp_wts
          /\ RemovedByStep \subseteq rp_last'.cands]_vars

\* C12 witness: gc ran without --prune, found candidates and they are all
\* still listed
RepoGcListedCandidatesOnly ==
    /\ rp_last.op = "gc"
    /\ ~rp_last.prune
    /\ rp_last.code = 0
    /\ rp_last.cands # {}
    /\ rp_last.cands \subseteq rp_wts

\* the ways del fails before or in `git worktree remove`: the lock, an
\* unknown name, a dirty worktree without --force, a failing git command
DelFailures ==
    {"worktree is locked", "worktree not found", "worktree is dirty (use --force)", "git"}

\* C29: a del that fails on the lock, on an unknown name, on a dirty worktree
\* without --force or in a git command leaves the listed worktrees and the
\* metadata document as they were; del changes the entry of a name only in a
\* step that removes the worktree of that name; and del on a locked name
\* reports the lock whatever else is wrong (the name unknown, git failing).
RepoDelFailureChangesNothing ==
    [][rp_last'.op = "del" =>
          /\ (rp_last'.code # 0 /\ rp_last'.msg \in DelFailures) =>
                 (rp_wts' = rp_wts /\ rp_disk' = rp_disk /\ rp_locks' = rp_locks)
          /\ \A name \in Names :
                 rp_disk'[name] # rp_disk[name] =>
                     (name = rp_last'.name /\ name \in RemovedByStep)
          /\ rp_last'.name \in rp_locks => rp_last'.msg = "worktree is locked"]_vars

\* C29 witness: del of a listed, unlocked worktree with a record failed in a
\* git command; the worktree is listed and the record is there
RepoDelGitFailureKeptAll ==
    /\ rp_last.op = "del"
    /\ rp_last.code = 2
    /\ rp_last.force
    /\ rp_last.name \in rp_wts
    /\ rp_last.name \notin rp_locks
    /\ IsSome(rp_disk[rp_last.name])

\* C13: when a command that ends with Ok(()) has removed a worktree, the
\* metadata document has no entry for the name of that worktree.
RepoRemovalDropsMetadata ==
    [][rp_last'.code = 0 =>
          \A name \in RemovedByStep : ~IsSome(rp_disk'[name])]_vars


(***************************************************************************)
(* Properties of note and subdir                                           *)
(***************************************************************************)
\* the commands that act on one worktree
ActivityOps == {"add", "note", "subdir", "sync", "apply", "verify", "exec"}

\* C15: after add, note, subdir, sync, apply, verify or exec on a worktree
\* has ended with Ok(()), the record of that worktree holds the time of that
\* command as its last_activity_at.
RepoActivityStamped ==
    (/\ rp_last.op \in ActivityOps
     /\ rp_last.code = 0
     /\ ~rp_last.all
     /\ rp_last.name \in rp_wts)
    => /\ IsSome(rp_disk[rp_last.name])
       /\ Unwrap(rp_disk[rp_last.name]).last_activity_at = Some(ToRfc3339(RepoNow))

(***************************************************************************)
(* Properties of sync, apply and gc as batches                             *)
(***************************************************************************)
\* C17: sync --all that reaches its loop runs the merge or rebase in every
\* listed worktree, whether or not it failed in another one, and gc
\* classifies every listed, unlocked worktree whose status query succeeds,
\* whether or not the query failed for another one.
BatchVisitsEveryWorktree ==
    [][/\ (rp_last'.op = "sync" /\ rp_last'.all /\ rp_last'.step \notin SyncFaults) =>
              rp_last'.done \cup rp_last'.errs = rp_wts
       /\ rp_last'.op = "gc" =>
              rp_last'.done \cup rp_last'.errs = rp_wts \ rp_locks]_vars

\* C18: a precondition failure ends with code 1, a git failure with 2, a
\* verification failure with 3 and a failed merge, rebase or fetch of sync or
\* apply with 4 and a message that starts with "sync failed: " or "apply
\* failed: ".
BatchErrorCodes ==
    /\ rp_last.msg \in {"worktree not found", "target worktree is dirty",
                        "worktree is locked", "exec failed", "io"} => rp_last.code = 1
    /\ rp_last.msg = "verify failed: " <=> rp_last.code = 3
    /\ rp_last.msg \in {"sync failed: ", "apply failed: "} <=> rp_last.code = 4
    /\ (rp_last.op \in {"sync", "apply"} /\ rp_last.step \in {"merge", "rebase", "fetch"}) =>
           /\ rp_last.code = 4
           /\ rp_last.msg = IF rp_last.op = "sync" THEN "sync failed: "
                            ELSE "apply failed: "


(***************************************************************************)
(* Properties of two concurrent note processes                             *)
(***************************************************************************)
\* the notes of `name` in document `data`
NotesOf(data, name) == IF IsSome(data[name]) THEN Unwrap(data[name]).notes ELSE <<>>

\* the names whose record in meta.json differs from the one at the start
RaceChanged == {name \in Names : rc_disk[name] # rc_init[name]}

\* both processes loaded the document the repository started with and both
\* ended with Ok(())
RaceBothOkFromSameDocument ==
    /\ \A p \in Procs : rc_pc[p] = "done" /\ rc_result[p] = "Ok" /\ rc_meta[p] = rc_init
    /\ Len(rc_order) = 2

\* C16: when two note processes have loaded the same document before either
\* wrote it and both have ended with Ok(()), meta.json is the document the
\* last writer loaded plus the note of the last writer alone: the note of
\* the first writer is not in it, and no error was reported.
RaceLastWriterWins ==
    RaceBothOkFromSameDocument =>
        LET last == rc_order[2]
            first == rc_order[1]
        IN  /\ rc_disk = MsAddNote(rc_init, rc_args[last].name, rc_args[last].text)
            /\ RaceChanged = {rc_args[last].name}
            /\ rc_args[first].name # rc_args[last].name =>
                   NotesOf(rc_disk, rc_args[first].name) = NotesOf(rc_init, rc_args[first].name)

\* C16 witness: two notes on different worktrees, both Ok, and only one of
\* the two records changed
RaceLostNote ==
    /\ RaceBothOkFromSameDocument
    /\ rc_args[1].name # rc_args[2].name
    /\ Cardinality(RaceChanged) = 1


(***************************************************************************)
(* Properties of the configuration                                         *)
(***************************************************************************)
\* the first element of a sequence of Options that is Some, else None
RECURSIVE FirstPresent(_)
FirstPresent(opts) ==
    IF opts = <<>> THEN None
    ELSE IF IsSome(Head(opts)) THEN Head(opts)
    ELSE FirstPresent(Tail(opts))

\* C19: for each of worktrees_dir, branch_prefix, base, subdir and
\* stale_days, what the getter returns is the first present of the
\* environment override, the project file, the global file and the built-in
\* default.
ConfEnvThenProjectThenGlobal ==
    cf_pc = "read" =>
        \A key \in ScalarSettings :
            cf_eff[key] = FirstPresent(<<cf_env[key], cf_project.cfg[key],
                                         cf_global.cfg[key], BuiltIn[key]>>)

\* C20: every key of the loaded Config has the value of the project file
\* when the project file sets that key, and else the value of the global
\* file, whatever other keys the two files set.
ConfMergedKeyByKey ==
    cf_pc \in {"loaded", "read"} =>
        \A key \in Keys :
            cf_config[key] = IF IsSome(cf_project.cfg[key]) THEN cf_project.cfg[key]
                             ELSE cf_global.cfg[key]

\* C20 witness: the two files set different keys of one section and the
\* loaded Config has both
ConfSectionSharedByFiles ==
    /\ cf_pc = "loaded"
    /\ \E k1 \in Keys : \E k2 \in SectionOf(k1) \ {k1} :
         /\ IsSome(cf_project.cfg[k1])
         /\ ~IsSome(cf_project.cfg[k2])
         /\ IsSome(cf_global.cfg[k2])
         /\ cf_config[k1] = cf_project.cfg[k1]
         /\ cf_config[k2] = cf_global.cfg[k2]


(***************************************************************************)
(* Properties of the name resolution of exec_cmd                           *)
(***************************************************************************)
\* one of the names given to exec is not the name of a listed worktree
SomeNameMissing ==
    \E i \in 1..Len(xr_args.worktrees) : xr_args.worktrees[i] \notin xr_wts

\* no command was started: no thread spawned, no run_shell called
NothingRan ==
    /\ ex_pc = "idle"
    /\ \A t \in Targets : ex_st[t] = "pending" /\ ex_started[t] = 0
    /\ ex_order = <<>>

LockRaceNeverRemovesLocked ==
    [][\A n \in Names : (n \in lr_wts /\ n \notin lr_wts') => n \notin lr_locks]_vars


(***************************************************************************)
(* Properties of dirty_files and recent_uncommitted                        *)
(***************************************************************************)
UntrackedLines == {i \in 1..Len(st_lines) : SubSeq(st_lines[i], 1, 2) = <<"?", "?">>}

TrackedLines == (1..Len(st_lines)) \ UntrackedLines

\* C23: dirty_files counts an untracked line only in untracked, any other
\* line in staged when its first indicator is non-blank and in unstaged
\* when its second is non-blank (in both when both are), and total is the
\* sum of the three counts.
StatusCountsPerIndicator ==
    st_pc \in {"counted", "listed"} =>
        /\ st_dirty.untracked = Cardinality(UntrackedLines)
        /\ st_dirty.staged = Cardinality({i \in TrackedLines : st_lines[i][1] # " "})
        /\ st_dirty.unstaged = Cardinality({i \in TrackedLines : st_lines[i][2] # " "})
        /\ st_dirty.total = st_dirty.staged + st_dirty.unstaged + st_dirty.untracked

\* one path staged and changed again next to an untracked path: two lines,
\* three counts
StatusOneFileCountedTwice ==
    /\ st_pc = "counted"
    /\ Len(st_lines) = 2
    /\ UntrackedLines # {}
    /\ st_dirty = [total |-> 3, staged |-> 1, unstaged |-> 1, untracked |-> 1]

\* the status line of a listed path
LineOf(file) == CHOOSE line \in {st_lines[i] : i \in 1..Len(st_lines)} : SubSeq(line, 4, Len(line)) = file

\* C24: the character shown for a recent change is '?' for an untracked
\* line, otherwise the second (working-tree) indicator whenever it is
\* non-blank, and the first (index) indicator only when there is no
\* unstaged change.
StatusShowsWorkingTreeFirst ==
    st_pc = "listed" =>
        \A k \in 1..Len(st_recent) :
            LET line == LineOf(st_recent[k].file)
            IN  st_recent[k].status =
                    IF SubSeq(line, 1, 2) = <<"?", "?">> THEN "?"
                    ELSE IF line[2] # " " THEN line[2]
                    ELSE line[1]

\* paths of the lines that recent_uncommitted did not return
Omitted == {SubSeq(st_lines[i], 4, Len(st_lines[i])) : i \in 1..Len(st_lines)} \ {st_recent[k].file : k \in 1..Len(st_recent)}

RecentBoundedNewestFirst ==
    /\ Len(st_recent) <= st_max
    /\ \A j, k \in 1..Len(st_recent) : j < k => st_recent[j].time >= st_recent[k].time
    /\ \A file \in Omitted :
         \/ Len(st_recent) = st_max
         \/ st_recent = <<>>
    /\ \A file \in Omitted, k \in 1..Len(st_recent) :
         file_mtime(st_mtime, file) <= st_recent[k].time

\* C25 as claimed: at most `max` entries, newest first, a prefix of the
\* full change set in that order, and a path whose modification time cannot
\* be determined gets timestamp zero and sorts after every path with a
\* known time.
RecentUnknownAfterEveryKnown ==
    st_pc = "listed" =>
        /\ RecentBoundedNewestFirst
        /\ \A j, k \in 1..Len(st_recent) :
             (~IsSome(st_mtime[st_recent[j].file]) /\ IsSome(st_mtime[st_recent[k].file]))
                 => (st_recent[j].time = 0 /\ k < j)

\* C25 amended: as above, but the path without a modification time sorts
\* after every path whose known time is at least one second after the
\* epoch.
RecentUnknownAfterEveryLaterThanEpoch ==
    st_pc = "listed" =>
        /\ RecentBoundedNewestFirst
        /\ \A j, k \in 1..Len(st_recent) :
             (~IsSome(st_mtime[st_recent[j].file]) /\ IsSome(st_mtime[st_recent[k].file]))
                 => /\ st_recent[j].time = 0
                    /\ Unwrap(st_mtime[st_recent[k].file]) >= 1 => k < j

\* a path without a modification time was printed first by git and is
\* listed behind a path modified after the epoch
RecentUnknownMovedBehind ==
    /\ st_pc = "listed"
    /\ Len(st_recent) = 2
    /\ st_recent[2].file = SubSeq(st_lines[1], 4, Len(st_lines[1]))
    /\ ~IsSome(st_mtime[st_recent[2].file])
    /\ st_recent[1].time = 1


(***************************************************************************)
(* Properties of Git::worktrees                                            *)
(***************************************************************************)
WorktreeLineAt == {i \in 1..Len(wl_lines) : Len(wl_lines[i]) = 2 /\ wl_lines[i][1] = "worktree"}

\* index of the k-th worktree line
BlockStart(k) == CHOOSE i \in WorktreeLineAt : Cardinality({j \in WorktreeLineAt : j <= i}) = k

\* the lines of the block that BlockStart(k) opens which carry `key`
BlockLines(k, key) ==
    {i \in 1..Len(wl_lines) :
        /\ i > BlockStart(k)
        /\ \A j \in WorktreeLineAt : j > BlockStart(k) => i < j
        /\ Len(wl_lines[i]) = 2 /\ wl_lines[i][1] = key}

Max(set) == CHOOSE x \in set : \A y \in set : y <= x

BlockValue(k, key) ==
    IF BlockLines(k, key) = {} THEN None ELSE Some(<<wl_lines[Max(BlockLines(k, key))][2]>>)

\* C26: the parser returns one record per `worktree <path>` line, in input
\* order; branch and head come from the `branch` and `HEAD` lines of the
\* record's own block and are absent when the block has none; every other
\* line, a branch or HEAD line before the first worktree line included,
\* changes nothing.
ListingOneRecordPerBlock ==
    wl_pc = "done" =>
        /\ Len(wl_result) = Cardinality(WorktreeLineAt)
        /\ \A k \in 1..Len(wl_result) :
             /\ wl_result[k].path = <<wl_lines[BlockStart(k)][2]>>
             /\ wl_result[k].branch = BlockValue(k, "branch")
             /\ wl_result[k].head = BlockValue(k, "HEAD")

\* a branch line ahead of the first worktree line, and a block with no
\* branch line behind a block with one
ListingStrayBranchAndBareBlock ==
    /\ wl_pc = "done"
    /\ Len(wl_lines) = 4
    /\ wl_lines[1] = <<"branch", "n">>
    /\ Len(wl_result) = 2
    /\ IsSome(wl_result[1].branch)
    /\ wl_result[2].branch = None


(***************************************************************************)
(* Properties of the logical name of a worktree                            *)
(***************************************************************************)
\* C27: the logical name is 'root' for the repository root, otherwise the
\* path relative to the worktrees directory for a path below it, otherwise
\* the raw path; a name always results, and for a worktree that add made
\* without --path it is the name add was given.
NamingRoundTrips ==
    nm_pc = "named" =>
        /\ IsSome(nm_display)
        /\ (nm_exists /\ PathEq(nm_path, RepoRoot)) => Unwrap(nm_display) = RootName
        /\ (~PathEq(nm_path, RepoRoot)
              /\ ~HasPrefixPath(CanonicalizeOr(nm_path, nm_exists),
                                CanonicalizeOr(WorktreesDir(nm_wdcfg), nm_wd_exists)))
             => Unwrap(nm_display) = nm_path
        /\ IsSome(nm_name) => Unwrap(nm_display) = Unwrap(nm_name)


(***************************************************************************)
(* Properties of Config::load and Config::validate                         *)
(***************************************************************************)
\* C21: validation is advisory: whatever the project file holds that is
\* TOML (unknown sections, unknown keys, out-of-range values, malformed
\* values of optional keys), Config::load succeeds.
ValidLoadNeverBlocked ==
    (IsSome(vd_loaded) /\ vd_file.syntax_ok) => Unwrap(vd_loaded).ok

Warnings == Unwrap(vd_warnings)

CountOf(kind, section, key) ==
    Cardinality({i \in 1..Len(Warnings) :
        Warnings[i].kind = kind /\ Warnings[i].section = section /\ Warnings[i].key = key})

UnknownSections == {e.section : e \in vd_file.entries} \ KnownSections

UnknownKeys ==
    {<<e.section, e.key>> : e \in {f \in vd_file.entries :
        f.section \in KnownSections /\ f.key # TopLevel /\ <<f.section, f.key>> \notin KnownKeys}}

NonPositiveStaleDays ==
    {e \in vd_file.entries : e.section = "gc" /\ e.key = "stale_days"
                             /\ e.value.type = "integer" /\ e.value.int <= 0}

AbsoluteSubdir ==
    {e \in vd_file.entries : e.section = "defaults" /\ e.key = "subdir"
                             /\ e.value.type = "string" /\ e.value.str # <<>> /\ e.value.str[1] = "/"}

\* C22: validate returns no warning for a missing, empty or fully valid
\* project file, and exactly one warning for each unknown section, each
\* unknown key of a known section (with a suggestion exactly when a known
\* key name is within edit distance 2), a gc.stale_days <= 0 and a
\* defaults.subdir that starts with '/'; it returns no other warning.
ValidOneWarningPerProblem ==
    (IsSome(vd_warnings) /\ vd_file.syntax_ok) =>
        /\ \A section \in UnknownSections : CountOf("unknown section", section, TopLevel) = 1
        /\ \A k \in UnknownKeys :
             /\ CountOf("unknown key", k[1], k[2]) = 1
             /\ \A i \in 1..Len(Warnings) :
                  (Warnings[i].kind = "unknown key" /\ Warnings[i].key = k[2]) =>
                      (IsSome(Warnings[i].suggest)
                          <=> \E c \in Keys : levenshtein(Spell[k[2]], Spell[c]) <= 2)
        /\ \A e \in NonPositiveStaleDays : CountOf("stale_days should be positive", "gc", "stale_days") = 1
        /\ \A e \in AbsoluteSubdir : CountOf("subdir should not start with '/'", "defaults", "subdir") = 1
        /\ Len(Warnings) = Cardinality(UnknownSections) + Cardinality(UnknownKeys)
                           + Cardinality(NonPositiveStaleDays) + Cardinality(AbsoluteSubdir)

\* a misspelt key that gets a suggestion next to a stale_days of zero
ValidTypoAndZeroDays ==
    /\ IsSome(vd_warnings)
    /\ Len(Warnings) = 2
    /\ Warnings[1] = Warning("unknown key", "defaults", "subdirs", Some("subdir"))
    /\ Warnings[2].kind = "stale_days should be positive"
    /\ \E e \in vd_file.entries : e.value = IntValue(0)

====
